---- MODULE Spec2Model ----
(***************************************************************************)
(* Coffee-lot lineage tracing (Rajvir0712/coffee-trace-ecom).              *)
(*                                                                         *)
(* Two tracers are modelled, because the repository has two:               *)
(*   - LotLineageTracker.get_lot_lineage  (src/fabric-lineage-tracker-     *)
(*     fixed.py), nodes with 'warning', 'sources', 'destinations';         *)
(*   - CoffeeLotLineageTracker.get_lot_lineage (src/backend_processor.py), *)
(*     nodes with 'depth', 'origins', 'destinations', dropped (None)       *)
(*     instead of warned.                                                  *)
(* and the 5-step join of CoffeeLotLineageTracker.build_purchase_lot_      *)
(* mapping.                                                                *)
(*                                                                         *)
(* Strings that the code normalises (lot numbers, order numbers, join      *)
(* keys) are sequences of tokens: a token is a blank " " or a chunk of     *)
(* letters such as "L1" or "l1".  str.strip() and str.upper() are defined  *)
(* on that representation.  Enumerated strings the code only compares      *)
(* (process types, warnings, relationship labels) are plain strings.       *)
(***************************************************************************)
EXTENDS Integers, Sequences, FiniteSets, TLC

VARIABLES
    records,                 \* the ledger rows (df_production / self.records)
    lot_records_cache,       \* LotLineageTracker.lot_records_cache
    prod_order_cache,        \* LotLineageTracker.prod_order_cache
    lot_index,               \* CoffeeLotLineageTracker.lot_index
    prod_order_index,        \* CoffeeLotLineageTracker.prod_order_index
    eacl_navision,           \* CoffeeLotLineageTracker.eacl_navision
    acom_sale,               \* CoffeeLotLineageTracker.acom_sale
    acom_nav_transform,      \* CoffeeLotLineageTracker.acom_nav_transform
    acom_nav_bridge,         \* CoffeeLotLineageTracker.acom_nav_bridge
    acom_production_results, \* CoffeeLotLineageTracker.acom_production_results
    purchase_lot_map,        \* CoffeeLotLineageTracker.purchase_lot_map
    result,                  \* what the last finished operation returned
    calls,                   \* the get_lot_lineage calls in progress
    loads                    \* the load_excel_file calls made on the tracker

\* The five sheets of the join and the map built from them.
joinVars == <<eacl_navision, acom_sale, acom_nav_transform, acom_nav_bridge,
              acom_production_results, purchase_lot_map>>

vars == <<records, lot_records_cache, prod_order_cache, lot_index,
          prod_order_index, eacl_navision, acom_sale, acom_nav_transform,
          acom_nav_bridge, acom_production_results, purchase_lot_map, result, calls,
          loads>>

----------------------------------------------------------------------------
(* Values *)

\* Python's None, as a value comparable with the token sequences.
None == <<"<None>">>

\* The float NaN that pandas puts in a row for an empty cell.
NaN == <<"<nan>">>

\* Python truthiness of a string-or-None value: None and '' are falsy.
Truthy(v) == v # None /\ v # <<>>

L0 == <<"L0">>
L1 == <<"L1">>
L2 == <<"L2">>
L3 == <<"L3">>
P1 == <<"P1">>
P2 == <<"P2">>

\* The lots and orders that ledger rows are drawn from; L0 is a lot that never
\* has a row.
Lots == {L1, L2, L3}
Orders == {P1, P2}
QueryLots == Lots \cup {L0}

\* Bounds of the model.
MaxRecords == 3
MaxDepth == 2
MaxSteps == 60

\* max_depth when the caller gives none: get_lot_lineage(lot_no, max_depth=10).
DefaultMaxDepth == 10

\* The max_depth arguments of the calls: the small ones, which cut trees over
\* three lots short at every level, and the default, which cuts none.
QueryDepths == (0..MaxDepth) \cup {DefaultMaxDepth}

\* str.strip(): leading and trailing blanks removed.
RECURSIVE LStrip(_)
LStrip(s) == IF s # <<>> /\ Head(s) = " " THEN LStrip(Tail(s)) ELSE s

RECURSIVE RStrip(_)
RStrip(s) ==
    IF s # <<>> /\ s[Len(s)] = " " THEN RStrip(SubSeq(s, 1, Len(s) - 1)) ELSE s

Strip(s) == RStrip(LStrip(s))

\* str(v): None prints as 'None', the NaN of an empty cell as 'nan', a string
\* as itself.
Str(v) == IF v = None THEN <<"None">> ELSE IF v = NaN THEN <<"nan">> ELSE v

\* A ledger row.  lot: 'Lot No_'; po: 'Prod_ Order No_'; ptype: 'Process Type';
\* dtype: 'Document Type'; dest: 'Lot Dest'.
Row(lot, po, ptype, dest) ==
    [lot |-> lot, po |-> po, ptype |-> ptype, dtype |-> ptype, dest |-> dest]

\* The rows a ledger of the tracing specifications is drawn from: the event
\* type is carried in both type columns.
TraceRows ==
    {Row(l, None, "Purchase", None) : l \in Lots}
    \cup {Row(l, p, t, None) : l \in Lots, p \in Orders, t \in {"Consumption", "Output"}}
    \cup {Row(l, None, "Transfer", d) : l \in Lots, d \in Lots \cup {None}}

SeqsUpTo(S, n) == UNION {[1..k -> S] : k \in 0..n}

\* The elements of a sequence, as a set.
Range(s) == {s[i] : i \in DOMAIN s}

\* A Python set of strings iterates in an order fixed by the process's string
\* hashing (PYTHONHASHSEED): seed is a listing of all lots, and a set is
\* listed in the order its members have in seed.
SetOrder(S, seed) == SelectSeq(seed, LAMBDA x : x \in S)

----------------------------------------------------------------------------
(* LotLineageTracker: the memoised lookups *)

\* A dict as a function over its keys; dict.get(k) with the default [].
Has(d, k) == k \in DOMAIN d
Put(d, k, v) == [x \in DOMAIN d \cup {k} |-> IF x = k THEN v ELSE d[x]]
EmptyDict == [x \in {} |-> <<>>]

\* A filter that keeps every row.
FilterNothing(recs, lot_no) == recs

\* df_production.filter(df["Lot No_"] == lot_no).collect()
FilterLot(recs, lot_no) == SelectSeq(recs, LAMBDA r : r.lot = lot_no)

\* df_production.filter(df["Prod_ Order No_"] == prod_order).collect()
FilterProdOrder(recs, prod_order) == SelectSeq(recs, LAMBDA r : r.po = prod_order)

\* A cache of one slot: whatever was cached first answers every later lookup.
get_lot_records_single_slot(recs, cache, lot_no) ==
    IF DOMAIN cache # {}
    THEN [rows |-> cache[CHOOSE k \in DOMAIN cache : TRUE], cache |-> cache]
    ELSE [rows |-> FilterLot(recs, lot_no),
          cache |-> Put(cache, lot_no, FilterLot(recs, lot_no))]

\* get_lot_records: the rows returned, and the cache afterwards.
get_lot_records(recs, cache, lot_no) ==
    IF Has(cache, lot_no)
    THEN [rows |-> cache[lot_no], cache |-> cache]
    ELSE [rows |-> FilterLot(recs, lot_no),
          cache |-> Put(cache, lot_no, FilterLot(recs, lot_no))]

\* A lookup of a production order that filters on the lot column.
get_prod_order_records_by_lot(recs, cache, prod_order) ==
    IF Has(cache, prod_order)
    THEN [rows |-> cache[prod_order], cache |-> cache]
    ELSE [rows |-> FilterLot(recs, prod_order),
          cache |-> Put(cache, prod_order, FilterLot(recs, prod_order))]

\* get_prod_order_records: the rows returned, and the cache afterwards.
get_prod_order_records(recs, cache, prod_order) ==
    IF Has(cache, prod_order)
    THEN [rows |-> cache[prod_order], cache |-> cache]
    ELSE [rows |-> FilterProdOrder(recs, prod_order),
          cache |-> Put(cache, prod_order, FilterProdOrder(recs, prod_order))]

\* get_process_types_for_lot, on the rows of the lot: the list(set) it returns
\* is kept as a set.
ProcessTypesOf(lot_data) ==
    IF lot_data = <<>> THEN {"Not Found"}
    ELSE IF {r.ptype : r \in {x \in Range(lot_data) : x.ptype # ""}} = {} THEN {"Unknown"}
    ELSE {r.ptype : r \in {x \in Range(lot_data) : x.ptype # ""}}

----------------------------------------------------------------------------
(* LotLineageTracker.get_lot_lineage, one recursion step at a time *)

WarnMaxDepth == "Max depth reached"
WarnVisited == "Already visited"
NoWarning == ""

\* A node of the fabric tracer's tree.  warning is NoWarning when the dict has
\* no 'warning' key, relationship is "" at the root, is_origin is FALSE when
\* the dict has no 'is_origin' key.
FNode(lot, warning, ptypes) ==
    [lot_no |-> lot, warning |-> warning, process_types |-> ptypes,
     sources |-> <<>>, destinations |-> <<>>, relationship |-> "",
     is_origin |-> FALSE]

\* Work of a frame of trace_lot_origin that is still to do, in code order.
ItemOutput(po) == [kind |-> "output", po |-> po, lot |-> None, rel |-> "", side |-> ""]
ItemConsumption(po) == [kind |-> "consumption", po |-> po, lot |-> None, rel |-> "", side |-> ""]
ItemTransfer(dest) == [kind |-> "transfer", po |-> None, lot |-> dest, rel |-> "", side |-> ""]
ItemCall(lot, rel, side) == [kind |-> "call", po |-> None, lot |-> lot, rel |-> rel, side |-> side]

\* The three loops over processes['Output'], processes['Consumption'] and
\* processes['Transfer'] of a lot whose rows are lot_data.
RECURSIVE ItemsOf(_, _)
ItemsOf(lot_data, ptype) ==
    IF lot_data = <<>> THEN <<>>
    ELSE LET r == Head(lot_data)
             rest == ItemsOf(Tail(lot_data), ptype)
         IN IF r.ptype # ptype THEN rest
            ELSE IF ptype = "Output"
                 THEN (IF Truthy(r.po) THEN <<ItemOutput(r.po)>> ELSE <<>>) \o rest
            ELSE IF ptype = "Consumption"
                 THEN (IF Truthy(r.po) THEN <<ItemConsumption(r.po)>> ELSE <<>>) \o rest
            ELSE <<ItemTransfer(r.dest)>> \o rest

\* The loops without the one over processes['Consumption'].
FrameTodoWithoutConsumption(lot_data) ==
    ItemsOf(lot_data, "Output") \o ItemsOf(lot_data, "Transfer")

FrameTodo(lot_data) ==
    ItemsOf(lot_data, "Output") \o ItemsOf(lot_data, "Consumption")
        \o ItemsOf(lot_data, "Transfer")

\* A frame whose node is marked as origin whatever the rows of its lot.
FrameAlwaysOrigin(lot, depth, node, todo, rel, side, isOrigin) ==
    [lot |-> lot, depth |-> depth, node |-> node, todo |-> todo,
     rel |-> rel, side |-> side, purchase |-> TRUE]

\* The call state: s.stack holds the frames of trace_lot_origin (the top is
\* the last), s.visited the visited set, s.ret the tree once the root returned.
\* s.lc and s.pc are the tracker's two caches.
Frame(lot, depth, node, todo, rel, side, isOrigin) ==
    [lot |-> lot, depth |-> depth, node |-> node, todo |-> todo,
     rel |-> rel, side |-> side, purchase |-> isOrigin]

\* A returned node is given its 'relationship' and appended by the caller; the
\* root's node is the result.
Deliver(s, node, rel, side) ==
    IF s.stack = <<>>
    THEN [s EXCEPT !.ret = <<node>>, !.pc = "done"]
    ELSE LET n == Len(s.stack)
             child == [node EXCEPT !.relationship = rel]
         IN IF side = "sources"
            THEN [s EXCEPT !.stack[n].node.sources = Append(@, child)]
            ELSE [s EXCEPT !.stack[n].node.destinations = Append(@, child)]

\* Variants of the guard of trace_lot_origin: without its visited test,
\* without its depth test, and never stopping.
TerminatesOnDepthOnly(s, lot, depth) == depth >= s.max_depth
TerminatesOnVisitedOnly(s, lot, depth) == lot \in s.visited
TerminatesNever(s, lot, depth) == FALSE

\* The guard of trace_lot_origin.
Terminates(s, lot, depth) == lot \in s.visited \/ depth >= s.max_depth

\* The depth test of the warning off by one.
WarningOfDepthExceeded(s, depth) ==
    IF depth > s.max_depth THEN WarnMaxDepth ELSE WarnVisited

\* The warning of the leaf returned when the guard holds.
WarningOf(s, depth) == IF depth >= s.max_depth THEN WarnMaxDepth ELSE WarnVisited

\* One encounter of a lot, kept in s.log in call order: the lot, the depth of
\* the call, whether the lot was in visited when the call was made, and what
\* the call did ("leaf": returned the warned leaf; "notfound"; "expanded":
\* went on to compute children; "none": returned None).
Event(s, lot, depth, kind, warning) ==
    [lot |-> lot, depth |-> depth, seen |-> lot \in s.visited, kind |-> kind,
     warning |-> warning]

\* trace_lot_origin(lot, depth) up to its first loop: a leaf is returned at
\* once, anything else gets a frame.
Enter(s, recs, lot, depth, rel, side) ==
    LET got == get_lot_records(recs, s.lc, lot)
    IN IF Terminates(s, lot, depth)
       THEN Deliver([s EXCEPT !.lc = got.cache,
                              !.log = Append(@, Event(s, lot, depth, "leaf",
                                                      WarningOf(s, depth)))],
                    FNode(lot, WarningOf(s, depth), ProcessTypesOf(got.rows)),
                    rel, side)
       ELSE IF got.rows = <<>>
       THEN Deliver([s EXCEPT !.lc = got.cache, !.visited = @ \cup {lot},
                              !.log = Append(@, Event(s, lot, depth, "notfound",
                                                      NoWarning))],
                    FNode(lot, NoWarning, {"Not Found"}), rel, side)
       ELSE [s EXCEPT !.lc = got.cache,
                      !.visited = @ \cup {lot},
                      !.log = Append(@, Event(s, lot, depth, "expanded", NoWarning)),
                      !.stack = Append(@,
                          Frame(lot, depth,
                                FNode(lot, NoWarning, ProcessTypesOf(got.rows)),
                                FrameTodo(got.rows), rel, side,
                                \E r \in Range(got.rows) : r.ptype = "Purchase"))]

\* The lots of all rows of a production order with process type ptype, the
\* lot itself among them.
OtherLotsWithSelf(prod_records, ptype, lot) ==
    {r.lot : r \in {x \in Range(prod_records) : x.ptype = ptype}}

\* The lots of the other rows of a production order with process type ptype.
OtherLots(prod_records, ptype, lot) ==
    {r.lot : r \in {x \in Range(prod_records) : x.ptype = ptype /\ x.lot # lot}}

\* The calls one item of a frame unfolds into.
CallsOf(lots, rel, side) ==
    [i \in DOMAIN SelectSeq(lots, Truthy) |->
        ItemCall(SelectSeq(lots, Truthy)[i], rel, side)]

\* The reverse lookup made on 'Lot No_' instead of 'Lot Dest'.
SourceTransfersByLotNo(recs, lot) ==
    SelectSeq(recs, LAMBDA r : r.ptype = "Transfer" /\ r.lot = lot /\ r.dest # lot)

\* source_transfers: the Transfer rows of other lots whose 'Lot Dest' is lot.
SourceTransfers(recs, lot) ==
    SelectSeq(recs, LAMBDA r : r.ptype = "Transfer" /\ r.dest = lot /\ r.lot # lot)

\* The calls of a transfer row without the test dest_lot != lot.
TransferCallsToSelf(recs, lot, dest_lot) ==
    (IF Truthy(dest_lot)
     THEN <<ItemCall(dest_lot, "Transferred to", "destinations")>> ELSE <<>>)
    \o [i \in DOMAIN SelectSeq(SourceTransfers(recs, lot),
                               LAMBDA r : Truthy(r.lot) /\ r.lot # lot) |->
          ItemCall(SelectSeq(SourceTransfers(recs, lot),
                             LAMBDA r : Truthy(r.lot) /\ r.lot # lot)[i].lot,
                   "Transferred from", "sources")]

TransferCalls(recs, lot, dest_lot) ==
    (IF Truthy(dest_lot) /\ dest_lot # lot
     THEN <<ItemCall(dest_lot, "Transferred to", "destinations")>> ELSE <<>>)
    \o [i \in DOMAIN SelectSeq(SourceTransfers(recs, lot),
                               LAMBDA r : Truthy(r.lot) /\ r.lot # lot) |->
          ItemCall(SelectSeq(SourceTransfers(recs, lot),
                             LAMBDA r : Truthy(r.lot) /\ r.lot # lot)[i].lot,
                   "Transferred from", "sources")]

\* Kept in s.via for the reader of a call: the lot and the production order
\* whose rows gave the calls, when there are any.
Via(lot, po, made) == IF made = <<>> THEN {} ELSE {<<lot, po>>}

\* One step of the frame on top of the stack.
FStepTop(s, recs) ==
    LET n == Len(s.stack)
        f == s.stack[n]
    IN IF f.todo = <<>>
       THEN \* 'Purchase' in processes, then return node
            Deliver([s EXCEPT !.stack = SubSeq(@, 1, n - 1)],
                    [f.node EXCEPT !.is_origin = f.purchase], f.rel, f.side)
       ELSE LET it == Head(f.todo)
                rest == Tail(f.todo)
            IN IF it.kind = "call"
               THEN Enter([s EXCEPT !.stack[n].todo = rest], recs,
                          it.lot, f.depth + 1, it.rel, it.side)
               ELSE IF it.kind = "transfer"
               THEN [s EXCEPT !.stack[n].todo =
                        TransferCalls(recs, f.lot, it.lot) \o rest]
               ELSE LET got == get_prod_order_records(recs, s.pc_cache, it.po)
                    IN IF it.kind = "output"
                       THEN [s EXCEPT
                               !.pc_cache = got.cache,
                               !.via = @ \cup Via(f.lot, it.po,
                                           CallsOf(SetOrder(OtherLots(got.rows, "Consumption",
                                                                      f.lot), s.seed),
                                                   "Consumed to produce this lot", "sources")),
                               !.stack[n].todo =
                                  CallsOf(SetOrder(OtherLots(got.rows, "Consumption", f.lot),
                                                   s.seed),
                                          "Consumed to produce this lot", "sources")
                                  \o rest]
                       ELSE [s EXCEPT
                               !.pc_cache = got.cache,
                               !.via = @ \cup Via(f.lot, it.po,
                                           CallsOf(SetOrder(OtherLots(got.rows, "Output",
                                                                      f.lot), s.seed),
                                                   "Produced by consuming this lot",
                                                   "destinations")),
                               !.stack[n].todo =
                                  CallsOf(SetOrder(OtherLots(got.rows, "Output", f.lot),
                                                   s.seed),
                                          "Produced by consuming this lot", "destinations")
                                  \o rest]

\* get_lot_lineage(lot_no, max_depth) as it starts: visited = set().
FStart(lc, pcc, lot_no, max_depth, seed) ==
    [pc |-> "start", impl |-> "fabric", lot_no |-> lot_no, max_depth |-> max_depth,
     seed |-> seed, stack |-> <<>>, visited |-> {}, log |-> <<>>, via |-> {},
     ret |-> <<>>, lc |-> lc, pc_cache |-> pcc, steps |-> 0]

FStep(s, recs) ==
    IF s.pc = "start" THEN Enter([s EXCEPT !.pc = "run"], recs, s.lot_no, 0, "", "")
    ELSE FStepTop(s, recs)

\* The whole call: steps are taken until the root returns.  A call that has
\* not returned after MaxSteps steps is left unfinished (pc is not "done").
RECURSIVE FRun(_, _)
FRun(s, recs) ==
    IF s.pc = "done" \/ s.steps >= MaxSteps THEN s
    ELSE FRun([FStep(s, recs) EXCEPT !.steps = s.steps + 1], recs)

----------------------------------------------------------------------------
(* CoffeeLotLineageTracker: the indexes *)

\* A Python dict that is iterated (insertion order): a sequence of entries.
Entry(k, v) == [key |-> k, val |-> v]
DictHas(d, k) == \E i \in DOMAIN d : d[i].key = k

\* d.get(k, [])
DictGet(d, k) ==
    IF DictHas(d, k) THEN d[CHOOSE i \in DOMAIN d : d[i].key = k].val ELSE <<>>

\* d[k].append(v), after "if k not in d: d[k] = []"
DictAppend(d, k, v) ==
    IF DictHas(d, k)
    THEN [i \in DOMAIN d |-> IF d[i].key = k THEN Entry(k, Append(d[i].val, v)) ELSE d[i]]
    ELSE Append(d, Entry(k, <<v>>))

\* The key of a row in lot_index: str(record.get('Lot No_', '')).strip()
LotKey(r) == Strip(Str(r.lot))

\* The key of a row in prod_order_index: str(record.get('Prod_ Order No_', '')).strip()
ProdOrderKey(r) == Strip(Str(r.po))

\* preprocess_data, first loop: rows are added to the index as it is.
RECURSIVE IndexByLot(_, _)
IndexByLot(index, recs) ==
    IF recs = <<>> THEN index
    ELSE IndexByLot(IF LotKey(Head(recs)) # <<>>
                    THEN DictAppend(index, LotKey(Head(recs)), Head(recs))
                    ELSE index,
                    Tail(recs))

\* preprocess_data, second loop.
RECURSIVE IndexByProdOrder(_, _)
IndexByProdOrder(index, recs) ==
    IF recs = <<>> THEN index
    ELSE IndexByProdOrder(IF ProdOrderKey(Head(recs)) # <<>>
                          THEN DictAppend(index, ProdOrderKey(Head(recs)), Head(recs))
                          ELSE index,
                          Tail(recs))

----------------------------------------------------------------------------
(* CoffeeLotLineageTracker.get_lot_lineage, one recursion step at a time *)

\* A node of the backend tracer's tree.
BNode(lot, record, depth) ==
    [lotNo |-> lot, prodOrderNo |-> record.po, origins |-> <<>>,
     destinations |-> <<>>, depth |-> depth]

ItemOrigin(po) == [kind |-> "origin", po |-> po, lot |-> None, dir |-> "", side |-> ""]
ItemDest(po) == [kind |-> "dest", po |-> po, lot |-> None, dir |-> "", side |-> ""]
ItemBuild(lot, dir, side, po) ==
    [kind |-> "call", po |-> po, lot |-> lot, dir |-> dir, side |-> side]

\* The two direction blocks of build_node: the origin block once, the
\* destination block once per entry of prod_order_index.
BFrameTodo(record, direction, poi) ==
    (IF direction \in {"origin", "both"}
     THEN <<ItemOrigin(ProdOrderKey(record))>> ELSE <<>>)
    \o (IF direction \in {"destination", "both"}
        THEN [i \in DOMAIN poi |-> ItemDest(poi[i].key)] ELSE <<>>)

BFrame(lot, depth, node, todo, side) ==
    [lot |-> lot, depth |-> depth, node |-> node, todo |-> todo, side |-> side]

\* A returned node is appended by the caller unless it is None (ret = <<>>).
BDeliver(s, ret, side) ==
    IF s.stack = <<>>
    THEN [s EXCEPT !.ret = ret, !.pc = "done"]
    ELSE LET n == Len(s.stack)
         IN IF side = "origins"
            THEN [s EXCEPT !.stack[n].node.origins = @ \o ret]
            ELSE [s EXCEPT !.stack[n].node.destinations = @ \o ret]

\* The guard of build_node.
BStops(s, lot, depth) == depth > s.max_depth \/ lot \in s.visited

\* build_node(lot, depth, direction) up to its first block.
BEnter(s, li, poi, lot, depth, direction, side) ==
    IF BStops(s, lot, depth)
    THEN BDeliver([s EXCEPT !.log = Append(@, Event(s, lot, depth, "none", NoWarning))],
                  <<>>, side)
    ELSE IF DictGet(li, lot) = <<>>
    THEN BDeliver([s EXCEPT !.visited = @ \cup {lot},
                            !.log = Append(@, Event(s, lot, depth, "none", NoWarning))],
                  <<>>, side)
    ELSE [s EXCEPT !.visited = @ \cup {lot},
                   !.log = Append(@, Event(s, lot, depth, "expanded", NoWarning)),
                   !.stack = Append(@,
                       BFrame(lot, depth, BNode(lot, DictGet(li, lot)[1], depth),
                              BFrameTodo(DictGet(li, lot)[1], direction, poi), side))]

\* The origin lots of a production order: its Consumption rows of other lots.
OriginCalls(prod_records, lot) ==
    [i \in DOMAIN SelectSeq(prod_records,
            LAMBDA r : r.dtype = "Consumption" /\ LotKey(r) # <<>> /\ LotKey(r) # lot) |->
        ItemBuild(LotKey(SelectSeq(prod_records,
            LAMBDA r : r.dtype = "Consumption" /\ LotKey(r) # <<>> /\ LotKey(r) # lot)[i]),
            "origin", "origins", None)]

\* The Output rows of other lots of a production order, as destination calls.
OutputCalls(prod_records, lot, po) ==
    [i \in DOMAIN SelectSeq(prod_records,
            LAMBDA r : r.dtype = "Output" /\ LotKey(r) # <<>> /\ LotKey(r) # lot) |->
        ItemBuild(LotKey(SelectSeq(prod_records,
            LAMBDA r : r.dtype = "Output" /\ LotKey(r) # <<>> /\ LotKey(r) # lot)[i]),
            "destination", "destinations", po)]

\* The destination block for one production order: its outputs, once per
\* Consumption row of the lot in that order.
RECURSIVE DestCalls(_, _, _, _)
DestCalls(rows, prod_records, lot, po) ==
    IF rows = <<>> THEN <<>>
    ELSE (IF Head(rows).dtype = "Consumption" /\ LotKey(Head(rows)) = lot
          THEN OutputCalls(prod_records, lot, po) ELSE <<>>)
         \o DestCalls(Tail(rows), prod_records, lot, po)

\* A tracer that never finds a production order in visited_prod_orders.
ClaimedNever(s, po) == FALSE

\* prod_order in visited_prod_orders
Claimed(s, po) == po \in s.vpo

\* One step of the frame on top of the stack.
BStepTop(s, li, poi) ==
    LET n == Len(s.stack)
        f == s.stack[n]
    IN IF f.todo = <<>>
       THEN BDeliver([s EXCEPT !.stack = SubSeq(@, 1, n - 1)], <<f.node>>, f.side)
       ELSE LET it == Head(f.todo)
                rest == Tail(f.todo)
            IN IF it.kind = "call"
               THEN BEnter([s EXCEPT !.stack[n].todo = rest,
                                     !.vpo = IF it.po = None THEN @ ELSE @ \cup {it.po}],
                           li, poi, it.lot, f.depth + 1, it.dir, it.side)
               ELSE IF it.kind = "origin"
               THEN IF it.po # <<>> /\ ~Claimed(s, it.po)
                    THEN [s EXCEPT !.vpo = @ \cup {it.po},
                                   !.via = @ \cup Via(f.lot, it.po,
                                               OriginCalls(DictGet(poi, it.po), f.lot)),
                                   !.stack[n].todo =
                                       OriginCalls(DictGet(poi, it.po), f.lot) \o rest]
                    ELSE [s EXCEPT !.stack[n].todo = rest]
               ELSE IF Claimed(s, it.po)
                    THEN [s EXCEPT !.stack[n].todo = rest]
                    ELSE [s EXCEPT
                            !.via = @ \cup Via(f.lot, it.po,
                                        DestCalls(DictGet(poi, it.po), DictGet(poi, it.po),
                                                  f.lot, it.po)),
                            !.stack[n].todo =
                            DestCalls(DictGet(poi, it.po), DictGet(poi, it.po), f.lot, it.po)
                            \o rest]

\* get_lot_lineage(lot_no, max_depth) as it starts.
BStart(lot_no, max_depth) ==
    [pc |-> "start", impl |-> "backend", lot_no |-> lot_no, max_depth |-> max_depth,
     stack |-> <<>>, visited |-> {}, vpo |-> {}, log |-> <<>>, via |-> {},
     ret |-> <<>>, steps |-> 0]

BStep(s, li, poi) ==
    IF s.pc = "start" THEN BEnter([s EXCEPT !.pc = "run"], li, poi, s.lot_no, 0, "both", "")
    ELSE BStepTop(s, li, poi)

\* The whole call, as FRun.
RECURSIVE BRun(_, _, _)
BRun(s, li, poi) ==
    IF s.pc = "done" \/ s.steps >= MaxSteps THEN s
    ELSE BRun([BStep(s, li, poi) EXCEPT !.steps = s.steps + 1], li, poi)

----------------------------------------------------------------------------
(* The tracing specification: whole calls *)

NoResult == [op |-> "none"]

\* No call in progress: s holds the two calls that may run at once,
\* overlapped whether a call has taken a step while the other was running.
Idle == [pc |-> "idle", impl |-> "none"]
NoCalls == [s |-> <<Idle, Idle>>, overlapped |-> <<FALSE, FALSE>>]

\* A count of the calls of trace_lot_origin instead of the visited lots.
FResultCountsCalls(s) ==
    [op |-> "fabric", lot_no |-> s.lot_no, max_depth |-> s.max_depth,
     tree |-> s.ret, total |-> Len(s.log),
     visited |-> s.visited, log |-> s.log, via |-> s.via,
     returned |-> s.pc = "done", steps |-> s.steps]

\* What LotLineageTracker.get_lot_lineage returns ('query_lot',
\* 'total_lots_traced', 'lineage_tree'), with the arguments of the call; visited
\* and log record the call's visited set and its encounters, returned whether
\* the call returned.
FResult(s) ==
    [op |-> "fabric", lot_no |-> s.lot_no, max_depth |-> s.max_depth,
     tree |-> s.ret, total |-> Cardinality(s.visited),
     visited |-> s.visited, log |-> s.log, via |-> s.via,
     returned |-> s.pc = "done", steps |-> s.steps]

\* What CoffeeLotLineageTracker.get_lot_lineage returns ('queriedLot',
\* 'lineageTree', 'totalNodesTraced'); tree is <<>> for None.
BResult(s) ==
    [op |-> "backend", lot_no |-> s.lot_no, max_depth |-> s.max_depth,
     tree |-> s.ret, total |-> Cardinality(s.visited),
     visited |-> s.visited, log |-> s.log, via |-> s.via,
     returned |-> s.pc = "done", steps |-> s.steps]

\* The listings of the lots that a set may be iterated in: every order of the
\* lots.
Seeds == {p \in [1..Cardinality(Lots) -> Lots] : Range(p) = Lots}

\* Lots and orders are named in the order in which the rows first mention
\* them: every ledger is one of these up to renaming.
RECURSIVE Mentions(_)
Mentions(recs) ==
    IF recs = <<>> THEN <<>>
    ELSE <<Head(recs).lot, Head(recs).dest, Head(recs).po>> \o Mentions(Tail(recs))

RECURSIVE InOrder(_, _, _)
InOrder(ms, lots, orders) ==
    IF ms = <<>> THEN TRUE
    ELSE IF Head(ms) = None \/ (Head(ms) \notin Range(lots) /\ Head(ms) \notin Range(orders))
    THEN InOrder(Tail(ms), lots, orders)
    ELSE IF lots # <<>> /\ Head(ms) = Head(lots) THEN InOrder(Tail(ms), Tail(lots), orders)
    ELSE IF orders # <<>> /\ Head(ms) = Head(orders) THEN InOrder(Tail(ms), lots, Tail(orders))
    ELSE FALSE

Canonical(recs) == InOrder(Mentions(recs), <<L1, L2, L3>>, <<P1, P2>>)

InitTrace ==
    /\ records \in {recs \in SeqsUpTo(TraceRows, MaxRecords) : Canonical(recs)}
    /\ lot_records_cache = EmptyDict
    /\ prod_order_cache = EmptyDict
    /\ lot_index = IndexByLot(<<>>, records)
    /\ prod_order_index = IndexByProdOrder(<<>>, records)
    /\ eacl_navision = <<>>
    /\ acom_sale = <<>>
    /\ acom_nav_transform = <<>>
    /\ acom_nav_bridge = <<>>
    /\ acom_production_results = <<>>
    /\ purchase_lot_map = <<>>
    /\ result = NoResult
    /\ calls = NoCalls
    /\ loads = 1

\* tracker.get_lot_lineage(lot_no, max_depth) on the LotLineageTracker
FabricGetLotLineage ==
    /\ result = NoResult
    /\ \E lot_no \in QueryLots, max_depth \in QueryDepths, seed \in Seeds :
        LET s == FRun(FStart(lot_records_cache, prod_order_cache, lot_no, max_depth, seed),
                      records)
        IN /\ result' = FResult(s)
           /\ lot_records_cache' = s.lc
           /\ prod_order_cache' = s.pc_cache
    /\ UNCHANGED <<records, lot_index, prod_order_index>>
    /\ UNCHANGED joinVars
    /\ UNCHANGED <<calls, loads>>

\* tracker.get_lot_lineage(lot_no, max_depth) on the CoffeeLotLineageTracker
BackendGetLotLineage ==
    /\ result = NoResult
    /\ \E lot_no \in QueryLots, max_depth \in QueryDepths :
        result' = BResult(BRun(BStart(lot_no, max_depth), lot_index, prod_order_index))
    /\ UNCHANGED <<records, lot_records_cache, prod_order_cache, lot_index,
                   prod_order_index>>
    /\ UNCHANGED joinVars
    /\ UNCHANGED <<calls, loads>>

NextTrace == FabricGetLotLineage \/ BackendGetLotLineage

SpecTrace == InitTrace /\ [][NextTrace]_vars

----------------------------------------------------------------------------
(* CoffeeLotLineageTracker.build_purchase_lot_mapping: the 5-step join *)

\* str.upper(), token by token.
UpperToken(c) ==
    CASE c = "k1" -> "K1" [] c = "k3" -> "K3" [] c = "p1" -> "P1" [] c = "l1" -> "L1"
      [] OTHER -> c

Upper(s) == [i \in DOMAIN s |-> UpperToken(s[i])]

\* norm(v): str(v if v is not None else '').strip().upper()
norm(v) == Upper(Strip(Str(IF v # None THEN v ELSE <<>>)))

\* Rows of the five sheets, by the columns the join reads.
\* EACL Navision: 'Lot Number', 'Sale Contract #'
EaclRow(lot_number, sale_contract_no) ==
    [lot_number |-> lot_number, sale_contract_no |-> sale_contract_no]
\* ACOM Navision Sale: 'Sale Contract', 'Lot #'
SaleRow(sale_contract, sale_lot) == [sale_contract |-> sale_contract, lot_no |-> sale_lot]
\* ACOM Nav Transform: 'Sale Lot', 'Production Lot'
TransformRow(sale_lot, production_lot) ==
    [sale_lot |-> sale_lot, production_lot |-> production_lot]
\* ACOM Nav Bridge: 'Lot No_(O)', 'Lot No_(D)'
BridgeRow(lot_o, lot_d) == [lot_o |-> lot_o, lot_d |-> lot_d]
\* ACOM Production Results: 'Lot No_', 'Prod_ Order No_'
ResultRow(lot, po) == [lot |-> lot, po |-> po]

\* The concatenation of a sequence of sequences, in order.
RECURSIVE Concat(_)
Concat(ss) == IF ss = <<>> THEN <<>> ELSE Head(ss) \o Concat(Tail(ss))

\* Step 1: for each EACL row with a lot number, the sale rows whose
\* 'Sale Contract' is that lot number.
Step1(eacl, sale) ==
    Concat([i \in DOMAIN eacl |->
        IF eacl[i].lot_number = None \/ Strip(Str(eacl[i].lot_number)) = <<>>
        THEN <<>>
        ELSE LET m == SelectSeq(sale, LAMBDA a :
                          norm(a.sale_contract) = norm(eacl[i].lot_number))
             IN [j \in DOMAIN m |->
                    [lotNumber |-> Str(eacl[i].lot_number),
                     saleContract |-> m[j].sale_contract,
                     saleLot |-> m[j].lot_no,
                     saleContractNumber |-> eacl[i].sale_contract_no]]])

\* Step 2: the transform rows whose 'Sale Lot' is the item's sale lot.
Step2(step1, transform) ==
    Concat([i \in DOMAIN step1 |->
        LET m == SelectSeq(transform, LAMBDA x : norm(x.sale_lot) = norm(step1[i].saleLot))
        IN [j \in DOMAIN m |->
               [lotNumber |-> step1[i].lotNumber,
                saleLot |-> step1[i].saleLot,
                productionLot |-> m[j].production_lot,
                saleContractNumber |-> step1[i].saleContractNumber]]])

\* Step 3: the bridge rows whose 'Lot No_(O)' is the item's production lot.
Step3(step2, bridge) ==
    Concat([i \in DOMAIN step2 |->
        LET m == SelectSeq(bridge, LAMBDA x : norm(x.lot_o) = norm(step2[i].productionLot))
        IN [j \in DOMAIN m |->
               [lotNumber |-> step2[i].lotNumber,
                productionLot |-> step2[i].productionLot,
                bridgeDestLot |-> m[j].lot_d,
                saleContractNumber |-> step2[i].saleContractNumber]]])

\* Step 4 for an item that no production-results row matches, were such an
\* item kept: it goes on without a production order.
Step4KeepUnmatched(step3, prod) ==
    Concat([i \in DOMAIN step3 |->
        LET m == SelectSeq(prod, LAMBDA x : norm(x.lot) = norm(step3[i].bridgeDestLot))
        IN IF m = <<>>
           THEN <<[lotNumber |-> step3[i].lotNumber,
                   bridgeDestLot |-> step3[i].bridgeDestLot,
                   prodOrder |-> None,
                   saleContractNumber |-> step3[i].saleContractNumber]>>
           ELSE [j \in DOMAIN m |->
                   [lotNumber |-> step3[i].lotNumber,
                    bridgeDestLot |-> step3[i].bridgeDestLot,
                    prodOrder |-> m[j].po,
                    saleContractNumber |-> step3[i].saleContractNumber]]])

\* Step 4: the production-results rows whose 'Lot No_' is the item's bridge
\* destination lot.
Step4(step3, prod) ==
    Concat([i \in DOMAIN step3 |->
        LET m == SelectSeq(prod, LAMBDA x : norm(x.lot) = norm(step3[i].bridgeDestLot))
        IN [j \in DOMAIN m |->
               [lotNumber |-> step3[i].lotNumber,
                bridgeDestLot |-> step3[i].bridgeDestLot,
                prodOrder |-> m[j].po,
                saleContractNumber |-> step3[i].saleContractNumber]]])

\* Step 5: the ledger rows with the item's 'Prod_ Order No_' (compared as it
\* is) and 'Process Type' Consumption.
Step5(step4, recs) ==
    Concat([i \in DOMAIN step4 |->
        LET m == SelectSeq(recs, LAMBDA r :
                     r.po = step4[i].prodOrder /\ r.ptype = "Consumption")
        IN [j \in DOMAIN m |->
               [lotNumber |-> step4[i].lotNumber,
                prodOrder |-> step4[i].prodOrder,
                consumptionLot |-> m[j].lot,
                saleContractNumber |-> step4[i].saleContractNumber]]])

\* The map update without the test "consumption_lot_no not in ...".
AddLotAlways(map, sale_contract, lot) == DictAppend(map, sale_contract, lot)

\* The map update of step 5 for one match: the lot is appended to the list of
\* its sale contract unless the list has it.
AddLot(map, sale_contract, lot) ==
    IF lot \in Range(DictGet(map, sale_contract)) THEN map
    ELSE DictAppend(map, sale_contract, lot)

\* purchase_lot_map after the matches of step 5, taken in order; the key is
\* str(item['saleContractNumber']).
RECURSIVE MapOf(_, _)
MapOf(step5, map) ==
    IF step5 = <<>> THEN map
    ELSE MapOf(Tail(step5),
               AddLot(map, Str(Head(step5).saleContractNumber),
                      Head(step5).consumptionLot))

\* What build_purchase_lot_mapping returns: the matches of the five steps.
BuildResult(eacl, sale, transform, bridge, prod, recs) ==
    LET s1 == Step1(eacl, sale)
        s2 == Step2(s1, transform)
        s3 == Step3(s2, bridge)
        s4 == Step4(s3, prod)
    IN [op |-> "build", step1 |-> s1, step2 |-> s2, step3 |-> s3, step4 |-> s4,
        step5 |-> Step5(s4, recs)]

\* get_purchase_lot_lineage: purchase_lot_map.get(sale_contract, [])
ConsumptionLotsOf(map, sale_contract) == DictGet(map, sale_contract)

\* get_purchase_lot_lineage: one get_lot_lineage(lot) per consumption lot.
PurchaseResult(map, li, poi, sale_contract) ==
    LET lots == ConsumptionLotsOf(map, sale_contract)
    IN [op |-> "purchase", sale_contract |-> sale_contract,
        lineages |-> [i \in DOMAIN lots |->
            BResult(BRun(BStart(lots[i], DefaultMaxDepth), li, poi))]]

----------------------------------------------------------------------------
(* The join specification: the sheets are loaded, the map is built, a sale *)
(* contract is resolved                                                    *)

K1 == <<"K1">>
K2 == <<"K2">>
K3 == <<"K3">>
K4 == <<"K4">>
L8 == <<"L8">>
L9 == <<"L9">>
SC0 == <<"SC0">>
SC1 == <<"SC1">>
SC2 == <<"SC2">>

\* Bounds of the join specification: rows of the sale, transform, bridge and
\* production-results sheets, and rows of the EACL sheet and of the ledger.
MaxSheetRows == 1
MaxFanRows == 2

\* The rows the sheets are drawn from.  Beside the rows of a chain with the
\* keys K1 .. K4 and the order P1 there are rows whose key differs in case or
\* blanks ("k1", "k3 ", "p1") and rows without a key.
EaclRows == {EaclRow(K1, SC1), EaclRow(<<"k1">>, SC2), EaclRow(None, SC2)}
SaleRows == {SaleRow(K1, K2), SaleRow(K1, None)}
TransformRows == {TransformRow(K2, K3), TransformRow(None, K3)}
BridgeRows == {BridgeRow(K3, K4), BridgeRow(<<"k3", " ">>, K4)}
ResultRows == {ResultRow(K4, P1), ResultRow(K4, <<"p1">>), ResultRow(K4, None)}
JoinLedgerRows ==
    {Row(L9, P1, "Consumption", None), Row(L8, P1, "Consumption", None),
     Row(L9, None, "Consumption", None), Row(L8, P1, "Output", None)}

\* The sale contracts that are resolved; SC0 is on no sheet.
SaleContracts == {SC0, SC1, SC2}

InitJoin ==
    /\ records \in SeqsUpTo(JoinLedgerRows, MaxFanRows)
    /\ eacl_navision \in SeqsUpTo(EaclRows, MaxFanRows)
    /\ acom_sale \in SeqsUpTo(SaleRows, MaxSheetRows)
    /\ acom_nav_transform \in SeqsUpTo(TransformRows, MaxSheetRows)
    /\ acom_nav_bridge \in SeqsUpTo(BridgeRows, MaxSheetRows)
    /\ acom_production_results \in SeqsUpTo(ResultRows, MaxSheetRows)
    /\ purchase_lot_map = <<>>
    /\ lot_records_cache = EmptyDict
    /\ prod_order_cache = EmptyDict
    /\ lot_index = IndexByLot(<<>>, records)
    /\ prod_order_index = IndexByProdOrder(<<>>, records)
    /\ result = NoResult
    /\ calls = NoCalls
    /\ loads = 1

\* tracker.build_purchase_lot_mapping()
BuildPurchaseLotMapping ==
    /\ result = NoResult
    /\ result' = BuildResult(eacl_navision, acom_sale, acom_nav_transform,
                             acom_nav_bridge, acom_production_results, records)
    /\ purchase_lot_map' = MapOf(result'.step5, <<>>)
    /\ UNCHANGED <<records, lot_records_cache, prod_order_cache, lot_index,
                   prod_order_index, eacl_navision, acom_sale, acom_nav_transform,
                   acom_nav_bridge, acom_production_results>>
    /\ UNCHANGED <<calls, loads>>

\* tracker.get_purchase_lot_lineage(sale_contract)
GetPurchaseLotLineage ==
    /\ result.op = "build"
    /\ \E sale_contract \in SaleContracts :
          result' = PurchaseResult(purchase_lot_map, lot_index, prod_order_index,
                                   sale_contract)
    /\ UNCHANGED <<records, lot_records_cache, prod_order_cache, lot_index,
                   prod_order_index>>
    /\ UNCHANGED joinVars
    /\ UNCHANGED <<calls, loads>>

NextJoin == BuildPurchaseLotMapping \/ GetPurchaseLotLineage

SpecJoin == InitJoin /\ [][NextJoin]_vars

----------------------------------------------------------------------------
(* CoffeeLotLineageTracker.get_lot_statistics *)

\* The values of a 'Quantity' cell: a number, a text cell that reads as a
\* number ('4'), a text cell that does not ('abc'), the NaN of an empty cell,
\* and no 'Quantity' column on the sheet at all.
QtyNum(n) == [kind |-> "number", val |-> n]
QtyNumText(n) == [kind |-> "numtext", val |-> n]
QtyText == [kind |-> "text", val |-> 0]
QtyNaN == [kind |-> "nan", val |-> 0]
QtyAbsent == [kind |-> "absent", val |-> 0]

\* A ledger row with its 'Quantity' cell.
QRow(lot, po, dtype, qty) ==
    [lot |-> lot, po |-> po, ptype |-> dtype, dtype |-> dtype, dest |-> None, qty |-> qty]

\* float(r.get('Quantity', 0)): raised tells that float() raises ValueError.
Float(q) ==
    CASE q.kind = "number" -> [raised |-> FALSE, value |-> QtyNum(q.val)]
      [] q.kind = "numtext" -> [raised |-> FALSE, value |-> QtyNum(q.val)]
      [] q.kind = "absent" -> [raised |-> FALSE, value |-> QtyNum(0)]
      [] q.kind = "nan" -> [raised |-> FALSE, value |-> QtyNaN]
      [] OTHER -> [raised |-> TRUE, value |-> QtyNum(0)]

\* x + y on floats: NaN absorbs.
FloatAdd(x, y) ==
    IF x.kind = "nan" \/ y.kind = "nan" THEN QtyNaN ELSE QtyNum(x.val + y.val)

\* sum(float(r.get('Quantity', 0)) for r in records), from acc on.
RECURSIVE SumQuantity(_, _)
SumQuantity(acc, recs) ==
    IF recs = <<>> THEN [raised |-> FALSE, value |-> acc]
    ELSE LET f == Float(Head(recs).qty)
         IN IF f.raised THEN f
            ELSE SumQuantity(FloatAdd(acc, f.value), Tail(recs))

\* What get_lot_statistics returns: the error value, the statistics, or
\* raised when the call ends in an exception.
StatsResult(li, lot_no) ==
    LET recs == DictGet(li, lot_no)
        total == SumQuantity(QtyNum(0), recs)
    IN [op |-> "stats", lot_no |-> lot_no,
        error |-> recs = <<>>,
        raised |-> recs # <<>> /\ total.raised,
        totalRecords |-> IF recs # <<>> /\ ~total.raised THEN Len(recs) ELSE 0,
        totalQuantity |-> IF recs # <<>> /\ ~total.raised THEN total.value ELSE QtyNum(0),
        documentTypes |-> IF recs # <<>> /\ ~total.raised
                          THEN {recs[i].dtype : i \in DOMAIN recs} ELSE {}]

----------------------------------------------------------------------------
(* The statistics specification: a ledger is loaded, then lots are queried *)

L1Padded == <<" ", "L1">>
L1Lower == <<"l1">>
Blank == <<" ">>

MaxStatRecords == 2

\* The 'Lot No_' cells of the ledger: a lot, the same lot with a leading blank
\* and in lower case, a blank cell and an empty cell.
StatLotCells == {L1, L1Padded, L1Lower, Blank, NaN}

\* The 'Quantity' cells of a sheet that has the column.
Quantities == {QtyNum(1), QtyNum(2), QtyNumText(4), QtyText, QtyNaN}

StatRows ==
    {QRow(l, P1, "Output", q) : l \in StatLotCells, q \in Quantities \cup {QtyAbsent}}
    \cup {QRow(l, NaN, "Consumption", q) : l \in StatLotCells,
                                          q \in Quantities \cup {QtyAbsent}}

\* The lots that are queried: the index keys and lots on no row.
StatQueryLots == {L1, L1Padded, L1Lower, <<"nan">>, L0}

\* to_dict('records') gives every row the same columns: the 'Quantity'
\* column is on all rows or on none.
SameColumns(recs) ==
    \/ \A i \in DOMAIN recs : recs[i].qty.kind = "absent"
    \/ \A i \in DOMAIN recs : recs[i].qty.kind # "absent"

\* A tracker after construction, and the ledger sheet of the file to load.
InitStats ==
    /\ records \in {recs \in SeqsUpTo(StatRows, MaxStatRecords) : SameColumns(recs)}
    /\ lot_records_cache = EmptyDict
    /\ prod_order_cache = EmptyDict
    /\ lot_index = <<>>
    /\ prod_order_index = <<>>
    /\ eacl_navision = <<>>
    /\ acom_sale = <<>>
    /\ acom_nav_transform = <<>>
    /\ acom_nav_bridge = <<>>
    /\ acom_production_results = <<>>
    /\ purchase_lot_map = <<>>
    /\ result = NoResult
    /\ calls = NoCalls
    /\ loads = 0

\* tracker.load_excel_file(file_path) of a file with the ledger sheet only:
\* the join over the absent sheets, then preprocess_data.
LoadExcelFile ==
    /\ result = NoResult
    /\ result' = [op |-> "load"]
    /\ purchase_lot_map' =
           MapOf(BuildResult(eacl_navision, acom_sale, acom_nav_transform,
                             acom_nav_bridge, acom_production_results, records).step5,
                 <<>>)
    /\ lot_index' = IndexByLot(lot_index, records)
    /\ prod_order_index' = IndexByProdOrder(prod_order_index, records)
    /\ UNCHANGED <<records, lot_records_cache, prod_order_cache, eacl_navision, acom_sale,
                   acom_nav_transform, acom_nav_bridge, acom_production_results>>
    /\ loads' = loads + 1
    /\ UNCHANGED calls

\* tracker.get_lot_statistics(lot_no)
GetLotStatistics ==
    /\ result.op \in {"load", "stats"}
    /\ \E lot_no \in StatQueryLots : result' = StatsResult(lot_index, lot_no)
    /\ UNCHANGED <<records, lot_records_cache, prod_order_cache, lot_index,
                   prod_order_index>>
    /\ UNCHANGED joinVars
    /\ UNCHANGED <<calls, loads>>

NextStats == LoadExcelFile \/ GetLotStatistics

SpecStats == InitStats /\ [][NextStats]_vars

----------------------------------------------------------------------------
(* The interleaving specification: two get_lot_lineage calls on one tracker,
   taking their recursion steps in any order *)

MaxConcRecords == 2

Queries == {1, 2}
Other(q) == 3 - q

ConcQueryLots == {L1, L2}
ConcDepths == {1, DefaultMaxDepth}

InProgress(c) == c.pc \in {"start", "run"}

\* The ledger of a tracker with cold caches and built indices.
InitConc ==
    /\ records \in {recs \in SeqsUpTo(TraceRows, MaxConcRecords) : Canonical(recs)}
    /\ lot_records_cache = EmptyDict
    /\ prod_order_cache = EmptyDict
    /\ lot_index = IndexByLot(<<>>, records)
    /\ prod_order_index = IndexByProdOrder(<<>>, records)
    /\ eacl_navision = <<>>
    /\ acom_sale = <<>>
    /\ acom_nav_transform = <<>>
    /\ acom_nav_bridge = <<>>
    /\ acom_production_results = <<>>
    /\ purchase_lot_map = <<>>
    /\ result = NoResult
    /\ calls = NoCalls
    /\ loads = 1

\* A thread calls get_lot_lineage on the LotLineageTracker: visited is a new
\* set of the call (line 56).  Both calls run in one process, so sets iterate
\* by the same seed.  Call 1 is the call that starts first.
FabricCall(q) ==
    /\ calls.s[q].pc = "idle"
    /\ q = 2 => calls.s[1].pc # "idle"
    /\ calls.s[Other(q)].impl # "backend"
    /\ \E lot_no \in ConcQueryLots, max_depth \in ConcDepths, seed \in Seeds :
        /\ calls.s[Other(q)].impl = "fabric" => calls.s[Other(q)].seed = seed
        /\ calls' = [calls EXCEPT !.s[q] = FStart(lot_records_cache, prod_order_cache,
                                                  lot_no, max_depth, seed)]
    /\ UNCHANGED <<records, lot_records_cache, prod_order_cache, lot_index,
                   prod_order_index, result, loads>>
    /\ UNCHANGED joinVars

\* One recursion step of a call of the LotLineageTracker: it reads and fills
\* the caches of the tracker as they are now.
FabricStep(q) ==
    /\ calls.s[q].impl = "fabric"
    /\ InProgress(calls.s[q])
    /\ calls.s[q].steps < MaxSteps
    /\ LET now == [calls.s[q] EXCEPT !.lc = lot_records_cache,
                                      !.pc_cache = prod_order_cache]
           s == FStep(now, records)
       IN /\ calls' = [calls EXCEPT
                          !.s[q] = [s EXCEPT !.steps = now.steps + 1],
                          !.overlapped[q] = @ \/ InProgress(calls.s[Other(q)])]
          /\ lot_records_cache' = s.lc
          /\ prod_order_cache' = s.pc_cache
    /\ UNCHANGED <<records, lot_index, prod_order_index, result, loads>>
    /\ UNCHANGED joinVars

\* A thread calls get_lot_lineage on the CoffeeLotLineageTracker:
\* visited_lots and visited_prod_orders are new sets of the call (lines 290-291).
BackendCall(q) ==
    /\ calls.s[q].pc = "idle"
    /\ q = 2 => calls.s[1].pc # "idle"
    /\ calls.s[Other(q)].impl # "fabric"
    /\ \E lot_no \in ConcQueryLots, max_depth \in ConcDepths :
        calls' = [calls EXCEPT !.s[q] = BStart(lot_no, max_depth)]
    /\ UNCHANGED <<records, lot_records_cache, prod_order_cache, lot_index,
                   prod_order_index, result, loads>>
    /\ UNCHANGED joinVars

\* One recursion step of a call of the CoffeeLotLineageTracker.
BackendStep(q) ==
    /\ calls.s[q].impl = "backend"
    /\ InProgress(calls.s[q])
    /\ calls.s[q].steps < MaxSteps
    /\ LET s == BStep(calls.s[q], lot_index, prod_order_index)
       IN calls' = [calls EXCEPT
                       !.s[q] = [s EXCEPT !.steps = calls.s[q].steps + 1],
                       !.overlapped[q] = @ \/ InProgress(calls.s[Other(q)])]
    /\ UNCHANGED <<records, lot_records_cache, prod_order_cache, lot_index,
                   prod_order_index, result, loads>>
    /\ UNCHANGED joinVars

NextConc ==
    \E q \in Queries : FabricCall(q) \/ FabricStep(q) \/ BackendCall(q) \/ BackendStep(q)

SpecConc == InitConc /\ [][NextConc]_vars

----------------------------------------------------------------------------
(* Reading a returned tree *)

\* The nodes of a fabric tree in pre-order, each with the depth it lies at
\* (root 0, a child one deeper than its parent).
RECURSIVE FFlatten(_, _)
FFlatten(nodes, depth) ==
    IF nodes = <<>> THEN <<>>
    ELSE LET n == Head(nodes)
         IN <<[lot |-> n.lot_no, depth |-> depth, warning |-> n.warning,
               leaf |-> n.sources = <<>> /\ n.destinations = <<>>,
               ptypes |-> n.process_types]>>
            \o FFlatten(n.sources, depth + 1)
            \o FFlatten(n.destinations, depth + 1)
            \o FFlatten(Tail(nodes), depth)

\* The nodes of a backend tree; such a node has no warning and no process
\* types, and carries its depth in its 'depth' field.
RECURSIVE BFlatten(_, _)
BFlatten(nodes, depth) ==
    IF nodes = <<>> THEN <<>>
    ELSE LET n == Head(nodes)
         IN <<[lot |-> n.lotNo, depth |-> depth, warning |-> NoWarning,
               leaf |-> n.origins = <<>> /\ n.destinations = <<>>,
               ptypes |-> {}, field |-> n.depth]>>
            \o BFlatten(n.origins, depth + 1)
            \o BFlatten(n.destinations, depth + 1)
            \o BFlatten(Tail(nodes), depth)

IsFabric == result.op = "fabric"
IsBackend == result.op = "backend"

TreeNodes ==
    IF IsFabric THEN FFlatten(result.tree, 0)
    ELSE IF IsBackend THEN BFlatten(result.tree, 0)
    ELSE <<>>

Encounters == IF result.op = "none" THEN <<>> ELSE result.log

Count(seq, lot, depth, warning) ==
    Cardinality({i \in DOMAIN seq :
        seq[i].lot = lot /\ seq[i].depth = depth /\ seq[i].warning = warning})

\* The lot of the call has no row in the ledger.
QueriedLotUnknown ==
    result.op # "none" /\ \A i \in DOMAIN records : records[i].lot # result.lot_no

----------------------------------------------------------------------------
(* C1: revisits *)

\* C1 as stated: every encounter of a lot that is already in visited is a
\* leaf of the tree with the "Already visited" warning.
C1_Original ==
    \A i \in DOMAIN Encounters :
        Encounters[i].seen =>
            Encounters[i].kind = "leaf" /\ Encounters[i].warning = WarnVisited

\* C1: in one call each lot is expanded at most once.  In the fabric tracer
\* an encounter of a lot already in visited is a childless leaf of the tree,
\* warned "Max depth reached" when its depth has reached max_depth and
\* "Already visited" otherwise, and the tree holds exactly one node per
\* encounter; in the backend tracer such an encounter gives no node, and the
\* tree holds exactly one node per expanded lot.
C1_ExpandedOnce ==
    /\ \A i, j \in DOMAIN Encounters :
          (/\ Encounters[i].kind \in {"expanded", "notfound"}
           /\ Encounters[j].kind \in {"expanded", "notfound"}
           /\ Encounters[i].lot = Encounters[j].lot) => i = j
    /\ \A i \in DOMAIN Encounters :
          Encounters[i].seen =>
             IF IsFabric
             THEN /\ Encounters[i].kind = "leaf"
                  /\ Encounters[i].warning =
                        (IF Encounters[i].depth >= result.max_depth
                         THEN WarnMaxDepth ELSE WarnVisited)
             ELSE Encounters[i].kind = "none"
    /\ IsFabric =>
          /\ Len(TreeNodes) = Len(Encounters)
          /\ \A i \in DOMAIN Encounters :
                Count(TreeNodes, Encounters[i].lot, Encounters[i].depth,
                      Encounters[i].warning)
                = Count(Encounters, Encounters[i].lot, Encounters[i].depth,
                        Encounters[i].warning)
          /\ \A j \in DOMAIN TreeNodes :
                TreeNodes[j].warning # NoWarning => TreeNodes[j].leaf
    /\ IsBackend =>
          /\ \A i, j \in DOMAIN TreeNodes :
                TreeNodes[i].lot = TreeNodes[j].lot => i = j
          /\ {TreeNodes[j].lot : j \in DOMAIN TreeNodes}
             = {Encounters[i].lot : i \in {k \in DOMAIN Encounters :
                                              Encounters[k].kind = "expanded"}}

\* A fabric trace met a visited lot again above max_depth: the leaf is warned
\* "Already visited".
C1_Witness ==
    /\ IsFabric
    /\ \E i \in DOMAIN Encounters :
          /\ Encounters[i].seen
          /\ Encounters[i].depth < result.max_depth
          /\ Count(TreeNodes, Encounters[i].lot, Encounters[i].depth, WarnVisited) > 0

----------------------------------------------------------------------------
(* C2: the depth bound *)

\* C2 as stated: no node lies deeper than max_depth, and every node at
\* max_depth is a childless leaf warned "Max depth reached".
C2_Original ==
    \A j \in DOMAIN TreeNodes :
        /\ TreeNodes[j].depth <= result.max_depth
        /\ TreeNodes[j].depth = result.max_depth =>
              TreeNodes[j].leaf /\ TreeNodes[j].warning = WarnMaxDepth

\* C2: no node of a returned tree lies deeper than max_depth.  In the fabric
\* tracer every node at max_depth is a childless leaf warned "Max depth
\* reached" and no shallower node has that warning; in the backend tracer a
\* node at max_depth has no children and no warning, and every node's 'depth'
\* field is the depth it lies at.
C2_DepthBound ==
    /\ \A j \in DOMAIN TreeNodes : TreeNodes[j].depth <= result.max_depth
    /\ IsFabric =>
          \A j \in DOMAIN TreeNodes :
              (TreeNodes[j].depth = result.max_depth)
                 <=> (TreeNodes[j].warning = WarnMaxDepth)
    /\ \A j \in DOMAIN TreeNodes :
          TreeNodes[j].depth = result.max_depth => TreeNodes[j].leaf
    /\ IsBackend =>
          \A j \in DOMAIN TreeNodes :
              TreeNodes[j].field = TreeNodes[j].depth /\ TreeNodes[j].warning = NoWarning

\* A fabric trace stopped at max_depth >= 1 on a lot that has rows.
C2_Witness ==
    /\ IsFabric
    /\ result.max_depth >= 1
    /\ \E j \in DOMAIN TreeNodes :
          /\ TreeNodes[j].depth = result.max_depth
          /\ TreeNodes[j].warning = WarnMaxDepth
          /\ \E i \in DOMAIN records :
                records[i].lot = TreeNodes[j].lot /\ records[i].ptype # "Purchase"

----------------------------------------------------------------------------
(* C3: termination *)

\* C3: every call of either tracer returns, whatever the ledger, the lot
\* and max_depth: the root's call has returned within MaxSteps steps.
C3_Terminates == result.op # "none" => result.returned

\* Two lots whose rows refer to each other.
CyclicLedger ==
    \E a, b \in Lots :
        /\ a # b
        /\ \E i, j \in DOMAIN records :
              /\ records[i].lot = a /\ records[j].lot = b
              /\ \/ records[i].dest = b /\ records[j].dest = a
                 \/ /\ records[i].po = records[j].po /\ records[i].po # None
                    /\ records[i].ptype = "Consumption" /\ records[j].ptype = "Output"

\* A trace over a cyclic ledger with the default max_depth returned after
\* having met a visited lot again.
C3_Witness ==
    /\ result.op # "none"
    /\ CyclicLedger
    /\ result.max_depth = DefaultMaxDepth
    /\ result.returned
    /\ \E i \in DOMAIN Encounters : Encounters[i].seen

----------------------------------------------------------------------------
(* C4: a lot without rows *)

\* C4 as stated: the trace of a lot without rows is one leaf with process
\* types ["Not Found"], no warning and no children, and one lot is traced.
C4_Original ==
    QueriedLotUnknown =>
        /\ result.returned
        /\ result.tree = <<FNode(result.lot_no, NoWarning, {"Not Found"})>>
        /\ result.total = 1

\* C4: the trace of a lot without rows returns.  The fabric tracer returns one
\* childless leaf with process types ["Not Found"]; with max_depth >= 1 the
\* leaf has no warning and one lot is traced, with max_depth = 0 the leaf is
\* warned "Max depth reached" and no lot is traced.  The backend tracer
\* returns no tree (None) and reports one lot traced.
C4_NotFound ==
    QueriedLotUnknown =>
        /\ result.returned
        /\ IsFabric /\ result.max_depth >= 1 =>
              /\ result.tree = <<[lot_no |-> result.lot_no, warning |-> NoWarning,
                                  process_types |-> {"Not Found"}, sources |-> <<>>,
                                  destinations |-> <<>>, relationship |-> "",
                                  is_origin |-> FALSE]>>
              /\ result.total = 1
        /\ IsFabric /\ result.max_depth = 0 =>
              /\ result.tree = <<[lot_no |-> result.lot_no, warning |-> WarnMaxDepth,
                                  process_types |-> {"Not Found"}, sources |-> <<>>,
                                  destinations |-> <<>>, relationship |-> "",
                                  is_origin |-> FALSE]>>
              /\ result.total = 0
        /\ IsBackend => result.tree = <<>> /\ result.total = 1

\* A fabric trace of a lot without rows, over a ledger that has rows.
C4_Witness ==
    /\ QueriedLotUnknown
    /\ IsFabric
    /\ records # <<>>
    /\ result.max_depth >= 1
    /\ result.total = 1

----------------------------------------------------------------------------
(* C5: determinism *)

\* C5 as stated: the fabric tracer, called again with the same lot and
\* max_depth on the tracer the call has left behind, returns the same tree and
\* the same count whichever order its sets of related lots are iterated in.
C5_Deterministic ==
    IsFabric =>
        \A seed \in Seeds :
            LET again == FResult(FRun(FStart(lot_records_cache, prod_order_cache,
                                             result.lot_no, result.max_depth, seed),
                                      records))
            IN again.tree = result.tree /\ again.total = result.total

----------------------------------------------------------------------------
(* C6: Scenario A *)

ScenarioA ==
    <<Row(L1, None, "Purchase", None), Row(L2, P1, "Consumption", None),
      Row(L3, P1, "Output", None)>>

ScenarioACall ==
    /\ records = ScenarioA
    /\ IsFabric
    /\ result.lot_no = L3
    /\ result.max_depth = DefaultMaxDepth

\* C6 as stated: the trace of L3 in Scenario A has the one source L2, whose
\* own source is L1 with is_origin, and three lots are traced.
C6_Original ==
    ScenarioACall =>
        /\ Len(result.tree) = 1
        /\ result.tree[1].lot_no = L3
        /\ Len(result.tree[1].sources) = 1
        /\ result.tree[1].sources[1].lot_no = L2
        /\ result.tree[1].sources[1].relationship = "Consumed to produce this lot"
        /\ Len(result.tree[1].sources[1].sources) = 1
        /\ result.tree[1].sources[1].sources[1].lot_no = L1
        /\ result.tree[1].sources[1].sources[1].is_origin
        /\ result.total = 3

\* C6: the trace of L3 in Scenario A is the root L3 with the one source L2
\* labelled "Consumed to produce this lot"; L2 has no source and the one
\* destination L3, a leaf warned "Already visited"; L1 is not in the tree and
\* two lots are traced.
C6_ScenarioA ==
    ScenarioACall =>
        /\ result.tree =
             <<[lot_no |-> L3, warning |-> NoWarning, process_types |-> {"Output"},
                relationship |-> "", is_origin |-> FALSE, destinations |-> <<>>,
                sources |->
                  <<[lot_no |-> L2, warning |-> NoWarning,
                     process_types |-> {"Consumption"},
                     relationship |-> "Consumed to produce this lot",
                     is_origin |-> FALSE, sources |-> <<>>,
                     destinations |->
                       <<[lot_no |-> L3, warning |-> WarnVisited,
                          process_types |-> {"Output"},
                          relationship |-> "Produced by consuming this lot",
                          is_origin |-> FALSE, sources |-> <<>>,
                          destinations |-> <<>>]>>]>>]>>
        /\ result.total = 2

C6_Witness == ScenarioACall /\ result.returned /\ result.total = 2

----------------------------------------------------------------------------
(* C7: Scenario C *)

ScenarioC == <<Row(L1, None, "Transfer", L1)>>

ScenarioCCall ==
    /\ records = ScenarioC
    /\ IsFabric
    /\ result.lot_no = L1
    /\ result.max_depth = DefaultMaxDepth

\* C7 as stated: the trace of a lot transferred to itself returns, and the
\* root has a child for the same lot that is a leaf warned "Already visited".
C7_Original ==
    ScenarioCCall =>
        /\ result.returned
        /\ Len(result.tree) = 1
        /\ \E c \in Range(result.tree[1].sources) \cup Range(result.tree[1].destinations) :
              /\ c.lot_no = L1
              /\ c.warning = WarnVisited
              /\ c.sources = <<>> /\ c.destinations = <<>>

\* C7: the trace of a lot transferred to itself returns; the transfer to
\* itself is skipped, so the tree is the root alone, without warning and
\* without children, and one lot is traced.
C7_ScenarioC ==
    ScenarioCCall =>
        /\ result.returned
        /\ result.tree = <<[lot_no |-> L1, warning |-> NoWarning,
                            process_types |-> {"Transfer"}, relationship |-> "",
                            is_origin |-> FALSE, sources |-> <<>>,
                            destinations |-> <<>>]>>
        /\ result.total = 1

C7_Witness == ScenarioCCall /\ result.returned /\ Len(result.tree) = 1

----------------------------------------------------------------------------
(* C8: the map against the chains of rows *)

MapIsBuilt == result.op \in {"build", "purchase"}

\* Two keys match: they are the same non-empty key once trimmed and
\* case-folded.
KeyMatch(a, b) == norm(a) = norm(b) /\ norm(a) # <<>>

\* A chain of rows, one per stage, from an EACL row carrying sale contract S
\* to a Consumption row of the ledger for lot L.
Chain(S, L) ==
    \E e \in Range(eacl_navision), a \in Range(acom_sale),
       x \in Range(acom_nav_transform), b \in Range(acom_nav_bridge),
       p \in Range(acom_production_results), r \in Range(records) :
        /\ e.sale_contract_no = S
        /\ KeyMatch(e.lot_number, a.sale_contract)
        /\ KeyMatch(a.lot_no, x.sale_lot)
        /\ KeyMatch(x.production_lot, b.lot_o)
        /\ KeyMatch(b.lot_d, p.lot)
        /\ KeyMatch(p.po, r.po)
        /\ r.ptype = "Consumption"
        /\ r.lot = L

\* C8 as stated: once the map is built, the entry of sale contract S holds
\* lot L exactly when a chain of rows with pairwise matching keys leads from S
\* to a Consumption row for L.
C8_Original ==
    MapIsBuilt =>
        \A S \in SaleContracts, L \in {L8, L9} :
            (L \in Range(DictGet(purchase_lot_map, S))) <=> Chain(S, L)

----------------------------------------------------------------------------
(* C9: the lists of the map *)

\* The consumption lots of the matches of step 5 for one sale contract, in
\* the order of the matches.
MatchedLots(step5, key) ==
    LET m == SelectSeq(step5, LAMBDA x : Str(x.saleContractNumber) = key)
    IN [i \in DOMAIN m |-> m[i].consumptionLot]

FirstIndex(seq, v) == CHOOSE i \in DOMAIN seq : seq[i] = v /\ \A j \in 1..(i - 1) : seq[j] # v

\* C9: when build_purchase_lot_mapping returns, each list of the map holds
\* the consumption lots of the step-5 matches of its sale contract, each once,
\* in the order in which the lots first appear among those matches; and every
\* sale contract with a match has a list.
C9_OrderedNoDuplicates ==
    result.op = "build" =>
        /\ \A n \in DOMAIN purchase_lot_map :
              LET key == purchase_lot_map[n].key
                  lots == purchase_lot_map[n].val
                  matched == MatchedLots(result.step5, key)
              IN /\ \A i, j \in DOMAIN lots : lots[i] = lots[j] => i = j
                 /\ Range(lots) = Range(matched)
                 /\ \A i, j \in DOMAIN lots :
                       i < j => FirstIndex(matched, lots[i]) < FirstIndex(matched, lots[j])
        /\ \A i \in DOMAIN result.step5 :
              DictHas(purchase_lot_map, Str(result.step5[i].saleContractNumber))
        /\ \A m, n \in DOMAIN purchase_lot_map :
              purchase_lot_map[m].key = purchase_lot_map[n].key => m = n

\* Two join paths lead to L8 and to L9 for one sale contract: four matches,
\* two lots in the list, L8 first.
C9_Witness ==
    /\ result.op = "build"
    /\ \E n \in DOMAIN purchase_lot_map :
          /\ purchase_lot_map[n].val = <<L8, L9>>
          /\ Len(MatchedLots(result.step5, purchase_lot_map[n].key)) >= 4

----------------------------------------------------------------------------
(* C10: empty sheets, unknown sale contracts *)

SomeSheetEmpty ==
    \/ eacl_navision = <<>>
    \/ acom_sale = <<>>
    \/ acom_nav_transform = <<>>
    \/ acom_nav_bridge = <<>>
    \/ acom_production_results = <<>>

\* C10: when one of the five sheets has no rows, build_purchase_lot_mapping
\* returns and leaves the map empty, and no later step has a match; and
\* get_purchase_lot_lineage of a sale contract that the map does not have
\* returns the empty list.
C10_EmptySheets ==
    /\ (MapIsBuilt /\ SomeSheetEmpty) => purchase_lot_map = <<>>
    /\ (result.op = "build" /\ SomeSheetEmpty) => result.step5 = <<>>
    /\ (result.op = "purchase" /\ ~DictHas(purchase_lot_map, result.sale_contract))
          => result.lineages = <<>>

\* The map was built with the production-results sheet empty and every other
\* sheet and the ledger not, and a sale contract was resolved to nothing.
C10_Witness ==
    /\ result.op = "purchase"
    /\ acom_production_results = <<>>
    /\ eacl_navision # <<>> /\ acom_sale # <<>> /\ acom_nav_transform # <<>>
    /\ acom_nav_bridge # <<>> /\ records # <<>>
    /\ result.sale_contract = SC1
    /\ result.lineages = <<>>

----------------------------------------------------------------------------
(* C11: the statistics of a lot *)

\* The quantity of a record as the Record Normalizer states it: a number, or
\* 0 for a cell that is missing or does not read as a number.
QuantityOf(r) == IF r.qty.kind \in {"number", "numtext"} THEN r.qty.val ELSE 0

RECURSIVE SumOf(_)
SumOf(recs) == IF recs = <<>> THEN 0 ELSE QuantityOf(Head(recs)) + SumOf(Tail(recs))

StatsReturned == result.op = "stats"

\* C11: a statistics call on a lot of the index returns totalRecords = the
\* number of the records the index holds for the lot and totalQuantity = the
\* sum of their quantities; a call on a lot that is not in the index returns
\* the error value; neither call ends in an exception.
C11_Original ==
    StatsReturned =>
        /\ ~result.raised
        /\ IF DictHas(lot_index, result.lot_no)
           THEN /\ ~result.error
                /\ result.totalRecords = Len(DictGet(lot_index, result.lot_no))
                /\ result.totalQuantity = QtyNum(SumOf(DictGet(lot_index, result.lot_no)))
           ELSE result.error

----------------------------------------------------------------------------
(* C12: quantities that are missing or not numeric *)

HasUnreadableQuantity(recs) ==
    \E i \in DOMAIN recs : recs[i].qty.kind \in {"text", "nan", "absent"}

\* C12: a statistics call on a lot with a record whose quantity is missing or
\* not numeric does not fail, and its totalQuantity is the sum of the numeric
\* quantities of the lot's other records.
C12_Original ==
    (StatsReturned /\ HasUnreadableQuantity(DictGet(lot_index, result.lot_no))) =>
        /\ ~result.raised
        /\ result.totalQuantity.kind = "number"
        /\ result.totalQuantity.val =
               SumOf(SelectSeq(DictGet(lot_index, result.lot_no),
                               LAMBDA r : r.qty.kind \in {"number", "numtext"}))

----------------------------------------------------------------------------
(* C13: the indices that preprocess_data builds *)

IndexBuilt == result.op \in {"load", "stats"}

\* A row whose lot number is missing (an empty cell) or empty.
MissingLot(r) == r.lot = NaN \/ Strip(Str(r.lot)) = <<>>

KeysOf(d) == {d[i].key : i \in DOMAIN d}

LotsUnder(d, r) == {k \in KeysOf(d) : \E i \in DOMAIN DictGet(d, k) : DictGet(d, k)[i] = r}

\* C13: once the ledger is indexed, the entry of each lot key is the rows of
\* that key in ledger order, and so for each production order key; a row with a
\* missing or empty lot number is in no entry of the lot index; looking up a
\* key of no row gives the empty list.
C13_Original ==
    IndexBuilt =>
        /\ \A k \in KeysOf(lot_index) \cup StatQueryLots :
               DictGet(lot_index, k)
                   = SelectSeq(records, LAMBDA r : ~MissingLot(r) /\ LotKey(r) = k)
        /\ \A k \in KeysOf(prod_order_index) \cup {P1, P2} :
               DictGet(prod_order_index, k)
                   = SelectSeq(records, LAMBDA r : ProdOrderKey(r) = k)
        /\ \A i \in DOMAIN records :
               MissingLot(records[i]) => LotsUnder(lot_index, records[i]) = {}

----------------------------------------------------------------------------
(* C14: interleaved queries *)

\* The call run alone, on a tracker with cold caches.
Alone(c) ==
    IF c.impl = "fabric"
    THEN FRun(FStart(EmptyDict, EmptyDict, c.lot_no, c.max_depth, c.seed), records)
    ELSE BRun(BStart(c.lot_no, c.max_depth), lot_index, prod_order_index)

\* C14: a get_lot_lineage call that returns after running interleaved with
\* another call on the same tracker returns the tree and the count of traced
\* lots that the same call returns when it runs alone.
C14_Isolated ==
    \A q \in Queries :
        calls.s[q].pc = "done" =>
            /\ Alone(calls.s[q]).pc = "done"
            /\ calls.s[q].ret = Alone(calls.s[q]).ret
            /\ calls.s[q].visited = Alone(calls.s[q]).visited

\* Both calls have returned, each took steps while the other was running,
\* both queried lots with relations, and the fabric caches were filled.
C14_Witness ==
    /\ \A q \in Queries :
          /\ calls.s[q].pc = "done"
          /\ calls.overlapped[q]
          /\ Cardinality(calls.s[q].visited) >= 2
    /\ calls.s[1].impl = "fabric"
    /\ calls.s[1].lot_no # calls.s[2].lot_no
    /\ DOMAIN lot_records_cache # {}

----------------------------------------------------------------------------
(* C15: the count of traced lots *)

\* The lots of the nodes of the tree that carry no warning.
UnwarnedLots == {TreeNodes[j].lot : j \in {k \in DOMAIN TreeNodes :
                                              TreeNodes[k].warning = NoWarning}}

TraceReturned == result.op \in {"fabric", "backend"} /\ result.returned

\* C15 as stated: the count returned is the size of visited, and visited is
\* the set of the lots that are nodes without a warning in the tree.
C15_Original ==
    TraceReturned =>
        /\ result.total = Cardinality(result.visited)
        /\ result.visited = UnwarnedLots

\* C15: the count returned is the size of visited.  In the fabric tracer
\* visited is the set of the lots that are nodes without a warning in the
\* tree.  In the backend tracer every lot of the tree is in visited, and a
\* lot of visited that is not in the tree is a lot without rows in the index,
\* for which no node was built.
C15_TotalNodes ==
    TraceReturned =>
        /\ result.total = Cardinality(result.visited)
        /\ IsFabric => result.visited = UnwarnedLots
        /\ IsBackend =>
              /\ UnwarnedLots \subseteq result.visited
              /\ \A lot \in result.visited \ UnwarnedLots :
                    DictGet(lot_index, lot) = <<>>

\* A fabric trace whose tree holds warned leaves besides the counted nodes.
C15_Witness ==
    /\ IsFabric /\ result.returned
    /\ result.total >= 2
    /\ \E j \in DOMAIN TreeNodes : TreeNodes[j].warning = WarnVisited
    /\ \E j \in DOMAIN TreeNodes : TreeNodes[j].ptypes = {"Not Found"}

----------------------------------------------------------------------------
(* C16: which warning a leaf carries *)

\* C16 as stated: in the fabric tracer every call on a lot that is already in
\* visited returns the leaf warned "Already visited", whatever its depth.
C16_Original ==
    IsFabric =>
        \A i \in DOMAIN Encounters :
            Encounters[i].seen =>
                /\ Encounters[i].kind = "leaf"
                /\ Encounters[i].warning = WarnVisited
                /\ Count(TreeNodes, Encounters[i].lot, Encounters[i].depth, WarnVisited) > 0

\* C16: in the fabric tracer the depth test decides the warning.  A call at a
\* depth that has reached max_depth returns the leaf warned "Max depth
\* reached", whether or not its lot is in visited; a call on a lot in visited
\* at a smaller depth returns the leaf warned "Already visited"; no other call
\* returns a warned leaf.
C16_DepthFirst ==
    IsFabric =>
        \A i \in DOMAIN Encounters :
            LET e == Encounters[i]
            IN /\ e.depth >= result.max_depth =>
                     /\ e.kind = "leaf" /\ e.warning = WarnMaxDepth
                     /\ Count(TreeNodes, e.lot, e.depth, WarnMaxDepth) > 0
                     /\ Count(TreeNodes, e.lot, e.depth, WarnVisited) = 0
               /\ (e.seen /\ e.depth < result.max_depth) =>
                     /\ e.kind = "leaf" /\ e.warning = WarnVisited
                     /\ Count(TreeNodes, e.lot, e.depth, WarnVisited) > 0
               /\ (~e.seen /\ e.depth < result.max_depth) =>
                     e.kind \in {"expanded", "notfound"} /\ e.warning = NoWarning

\* A fabric trace met a lot of visited again at the depth max_depth: the leaf
\* says "Max depth reached".
C16_Witness ==
    /\ IsFabric /\ result.returned
    /\ \E i \in DOMAIN Encounters :
          /\ Encounters[i].seen
          /\ Encounters[i].depth = result.max_depth
          /\ Encounters[i].warning = WarnMaxDepth

----------------------------------------------------------------------------
(* C17: production-order expansion *)

\* The nodes of a fabric tree, whole, each with the depth it lies at.
RECURSIVE FSubnodes(_, _)
FSubnodes(nodes, depth) ==
    IF nodes = <<>> THEN <<>>
    ELSE <<[node |-> Head(nodes), depth |-> depth]>>
         \o FSubnodes(Head(nodes).sources, depth + 1)
         \o FSubnodes(Head(nodes).destinations, depth + 1)
         \o FSubnodes(Tail(nodes), depth)

\* The nodes of a backend tree, whole.
RECURSIVE BSubnodes(_, _)
BSubnodes(nodes, depth) ==
    IF nodes = <<>> THEN <<>>
    ELSE <<[node |-> Head(nodes), depth |-> depth]>>
         \o BSubnodes(Head(nodes).origins, depth + 1)
         \o BSubnodes(Head(nodes).destinations, depth + 1)
         \o BSubnodes(Tail(nodes), depth)

FabricNodes == IF IsFabric THEN Range(FSubnodes(result.tree, 0)) ELSE {}
BackendNodes == IF IsBackend THEN Range(BSubnodes(result.tree, 0)) ELSE {}

\* An expanded node of a fabric tree: no warning, and rows were found.
FExpanded(n) == n.warning = NoWarning /\ n.process_types # {"Not Found"}

\* The lots of the children of a node with a given label.
Labelled(children, rel) ==
    {children[i].lot_no : i \in {k \in DOMAIN children : children[k].relationship = rel}}

LotsOfNodes(children) == {children[i].lotNo : i \in DOMAIN children}

RelConsumed == "Consumed to produce this lot"
RelProduced == "Produced by consuming this lot"

\* The orders under which lot has a row of process type ptype.
OrdersOf(lot, ptype) ==
    {r.po : r \in {x \in Range(records) : x.lot = lot /\ x.ptype = ptype /\ Truthy(x.po)}}

\* The lots other than lot with a row of process type ptype under one of orders.
LotsUnderOrders(orders, ptype, lot) ==
    {r.lot : r \in {x \in Range(records) : x.ptype = ptype /\ x.po \in orders /\ x.lot # lot}}

ConsumedFor(lot) == LotsUnderOrders(OrdersOf(lot, "Output"), "Consumption", lot)
ProducedFrom(lot) == LotsUnderOrders(OrdersOf(lot, "Consumption"), "Output", lot)

\* C17 as stated, for both tracers: the sources of an expanded lot X that come
\* from production orders are the other lots consumed under the orders X is an
\* output of, its destinations the other lots output under the orders X is
\* consumed in; the children lie one level deeper and X is not its own child.
C17_Original ==
    /\ \A x \in FabricNodes :
          FExpanded(x.node) =>
             /\ Labelled(x.node.sources, RelConsumed) = ConsumedFor(x.node.lot_no)
             /\ Labelled(x.node.destinations, RelProduced) = ProducedFrom(x.node.lot_no)
             /\ x.node.lot_no \notin Labelled(x.node.sources, RelConsumed)
                                       \cup Labelled(x.node.destinations, RelProduced)
    /\ \A x \in BackendNodes :
          /\ LotsOfNodes(x.node.origins) = ConsumedFor(x.node.lotNo)
          /\ LotsOfNodes(x.node.destinations) = ProducedFrom(x.node.lotNo)
          /\ x.node.lotNo \notin LotsOfNodes(x.node.origins)
                                    \cup LotsOfNodes(x.node.destinations)
          /\ x.node.depth = x.depth

\* The production order of the first row of a lot, the one the backend follows
\* for origins.
FirstOrderOf(lot) ==
    IF DictGet(lot_index, lot) = <<>> THEN {}
    ELSE {r.po : r \in {x \in {DictGet(lot_index, lot)[1]} : Truthy(x.po)}}

\* C17: in the fabric tracer the statement holds, a child being the node that
\* the call at depth + 1 returns (a warned leaf when the call stops at once).
\* In the backend tracer children carry no label and only some of the related
\* lots get a node: the origins of X are among the other lots consumed under
\* the order of X's first row, the destinations of X are among the other lots
\* output under an order X is consumed in; children lie one level deeper and
\* X is not its own child.
C17_ProductionExpansion ==
    /\ \A x \in FabricNodes :
          FExpanded(x.node) =>
             /\ Labelled(x.node.sources, RelConsumed) = ConsumedFor(x.node.lot_no)
             /\ Labelled(x.node.destinations, RelProduced) = ProducedFrom(x.node.lot_no)
             /\ x.node.lot_no \notin Labelled(x.node.sources, RelConsumed)
                                       \cup Labelled(x.node.destinations, RelProduced)
    /\ \A x \in FabricNodes :
          ~FExpanded(x.node) => x.node.sources = <<>> /\ x.node.destinations = <<>>
    /\ \A x \in BackendNodes :
          /\ LotsOfNodes(x.node.origins)
                \subseteq LotsUnderOrders(FirstOrderOf(x.node.lotNo), "Consumption",
                                          x.node.lotNo)
          /\ LotsOfNodes(x.node.destinations) \subseteq ProducedFrom(x.node.lotNo)
          /\ x.node.lotNo \notin LotsOfNodes(x.node.origins)
                                    \cup LotsOfNodes(x.node.destinations)
          /\ x.node.depth = x.depth

\* A fabric tree with a lot produced from two other lots and a lot consumed
\* into another.
C17_Witness ==
    /\ \E x \in FabricNodes :
          FExpanded(x.node) /\ Cardinality(Labelled(x.node.sources, RelConsumed)) = 2
    /\ \E x \in FabricNodes :
          FExpanded(x.node) /\ Labelled(x.node.destinations, RelProduced) # {}

----------------------------------------------------------------------------
(* C18: transfer expansion *)

RelTransferredTo == "Transferred to"
RelTransferredFrom == "Transferred from"

\* The 'Lot Dest' values of the Transfer rows of lot.
TransferDestsOf(lot) ==
    {r.dest : r \in {x \in Range(records) :
                        x.ptype = "Transfer" /\ x.lot = lot /\ Truthy(x.dest)}}

\* The other lots with a Transfer row whose 'Lot Dest' is lot.
TransferredInto(lot) ==
    {r.lot : r \in {x \in Range(records) :
                       x.ptype = "Transfer" /\ x.dest = lot /\ x.lot # lot}}

HasTransferRow(lot) == \E i \in DOMAIN records :
                           records[i].ptype = "Transfer" /\ records[i].lot = lot

----------------------------------------------------------------------------
(* C19: origins *)

HasPurchaseRow(lot) == \E i \in DOMAIN records :
                           records[i].ptype = "Purchase" /\ records[i].lot = lot

\* C19 as stated: a node of a fabric tree is marked as origin exactly when the
\* ledger holds a Purchase row of its lot.
C19_Original ==
    \A x \in FabricNodes : x.node.is_origin <=> HasPurchaseRow(x.node.lot_no)

\* C19: a node of a fabric tree is marked as origin exactly when it is an
\* expanded node (it carries no warning) and the ledger holds a Purchase row of
\* its lot; a warned leaf is never marked, and neither is a lot without a
\* Purchase row.
C19_OriginMark ==
    \A x \in FabricNodes :
        x.node.is_origin <=> (x.node.warning = NoWarning /\ HasPurchaseRow(x.node.lot_no))

\* A fabric tree with a node marked as origin and a warned leaf of a purchased
\* lot.
C19_Witness ==
    /\ \E x \in FabricNodes : x.node.is_origin
    /\ \E x \in FabricNodes :
          x.node.warning # NoWarning /\ HasPurchaseRow(x.node.lot_no)
    /\ \E x \in FabricNodes :
          x.node.warning = NoWarning /\ ~HasPurchaseRow(x.node.lot_no)

----------------------------------------------------------------------------
(* C20: one normalization of keys everywhere *)

\* Two keys that are present and differ at most in surrounding blanks and in
\* letter case.
SameKey(a, b) == a # None /\ b # None /\ norm(a) # <<>> /\ norm(a) = norm(b)

\* The keys on the sheets and the ledger.
JoinKeys ==
    {eacl_navision[i].lot_number : i \in DOMAIN eacl_navision}
    \cup {acom_sale[i].sale_contract : i \in DOMAIN acom_sale}
    \cup {acom_sale[i].lot_no : i \in DOMAIN acom_sale}
    \cup {acom_nav_transform[i].sale_lot : i \in DOMAIN acom_nav_transform}
    \cup {acom_nav_transform[i].production_lot : i \in DOMAIN acom_nav_transform}
    \cup {acom_nav_bridge[i].lot_o : i \in DOMAIN acom_nav_bridge}
    \cup {acom_nav_bridge[i].lot_d : i \in DOMAIN acom_nav_bridge}
    \cup {acom_production_results[i].lot : i \in DOMAIN acom_production_results}
    \cup {acom_production_results[i].po : i \in DOMAIN acom_production_results}
    \cup {records[i].po : i \in DOMAIN records}

StagesRun == result.op = "build"

Stage1SameKey ==
    \A e \in Range(eacl_navision), a \in Range(acom_sale) :
        SameKey(e.lot_number, a.sale_contract) =>
            \E m \in Range(result.step1) :
                m.lotNumber = Str(e.lot_number) /\ m.saleContract = a.sale_contract

Stage2SameKey ==
    \A item \in Range(result.step1), x \in Range(acom_nav_transform) :
        SameKey(item.saleLot, x.sale_lot) =>
            \E m \in Range(result.step2) :
                m.saleLot = item.saleLot /\ m.productionLot = x.production_lot

Stage3SameKey ==
    \A item \in Range(result.step2), b \in Range(acom_nav_bridge) :
        SameKey(item.productionLot, b.lot_o) =>
            \E m \in Range(result.step3) :
                m.productionLot = item.productionLot /\ m.bridgeDestLot = b.lot_d

Stage4SameKey ==
    \A item \in Range(result.step3), p \in Range(acom_production_results) :
        SameKey(item.bridgeDestLot, p.lot) =>
            \E m \in Range(result.step4) :
                m.bridgeDestLot = item.bridgeDestLot /\ m.prodOrder = p.po

Stage5SameKey ==
    \A item \in Range(result.step4), r \in Range(records) :
        (SameKey(item.prodOrder, r.po) /\ r.ptype = "Consumption") =>
            \E m \in Range(result.step5) :
                m.prodOrder = item.prodOrder /\ m.consumptionLot = r.lot

\* C20 as stated, for the join: normalizing a key twice gives what
\* normalizing it once gives, and each of the five stages matches two keys
\* that differ only in surrounding blanks or letter case.
C20_Original ==
    StagesRun =>
        /\ \A k \in JoinKeys : norm(norm(k)) = norm(k)
        /\ Stage1SameKey
        /\ Stage2SameKey
        /\ Stage3SameKey
        /\ Stage4SameKey
        /\ Stage5SameKey

----------------------------------------------------------------------------
(* C21: production orders followed once *)

\* The pairs of a lot and a production order whose rows gave that lot's
\* expansion calls for children.
ViaPairs == IF result.op \in {"fabric", "backend"} THEN result.via ELSE {}

\* C21 as stated, for both tracers: in one call no production order gives
\* children to the expansions of two different lots.
C21_Original ==
    \A a, b \in ViaPairs : a[2] = b[2] => a[1] = b[1]

\* The lots that a fabric expansion of lot reaches through order po.
ReachedThrough(lot, po) ==
    {r.lot : r \in {x \in Range(records) :
        /\ x.po = po /\ x.lot # lot
        /\ \/ x.ptype = "Consumption" /\ po \in OrdersOf(lot, "Output")
           \/ x.ptype = "Output" /\ po \in OrdersOf(lot, "Consumption")}}

ExpandedLots ==
    {Encounters[i].lot : i \in {k \in DOMAIN Encounters : Encounters[k].kind = "expanded"}}

\* C21: in the backend tracer no production order gives children to the
\* expansions of two different lots of one call.  The fabric tracer keeps no
\* set of production orders: every expanded lot follows every production
\* order of its own Output and Consumption rows that has rows of other lots,
\* whether or not another lot followed that order before.
C21_BackendClaims ==
    /\ IsBackend => \A a, b \in ViaPairs : a[2] = b[2] => a[1] = b[1]
    /\ IsFabric =>
          ViaPairs = {p \in ExpandedLots \X Orders : ReachedThrough(p[1], p[2]) # {}}

\* A backend call in which a production order was followed from one lot and
\* another expanded lot has rows of other lots under that order.
C21_Witness ==
    /\ IsBackend /\ result.returned
    /\ \E a \in ViaPairs : \E lot \in ExpandedLots :
          /\ lot # a[1]
          /\ \E i, j \in DOMAIN records :
                /\ records[i].lot = lot /\ records[i].po = a[2]
                /\ records[j].lot # lot /\ records[j].po = a[2]
                /\ records[j].ptype = "Consumption"
                /\ records[j].lot = a[1]

----------------------------------------------------------------------------
(* A session on one CoffeeLotLineageTracker: files are loaded, one after the
   other, and queries are made in between *)

MaxLoads == 2
MaxSessionRecords == 2

\* A sheet of a workbook, and a sheet name the workbook does not have.
Sheet(rows) == [present |-> TRUE, rows |-> rows]
NoSheet == [present |-> FALSE, rows |-> <<>>]

\* self.x = df.to_dict('records') under "if sheet_name in excel_file.sheet_names":
\* an attribute whose sheet is not in the file keeps the value it has.
Loaded(sheet, attr) == IF sheet.present THEN sheet.rows ELSE attr

\* The ledger rows of the files of a session.
SessionRows ==
    {QRow(L1, P1, "Output", QtyNum(1)), QRow(L2, P1, "Consumption", QtyNum(2)),
     QRow(L9, P1, "Consumption", QtyNum(1))}

\* The files: a ledger sheet or none, and the five sheets of the join with
\* the chain SC1 - K1 - K2 - K3 - K4 - P1 or none of them.
Workbooks ==
    {[main |-> m, eacl |-> j[1], sale |-> j[2], transform |-> j[3], bridge |-> j[4],
      results |-> j[5]] :
        m \in {Sheet(recs) : recs \in SeqsUpTo(SessionRows, MaxSessionRecords)}
              \cup {NoSheet},
        j \in {<<NoSheet, NoSheet, NoSheet, NoSheet, NoSheet>>,
               <<Sheet(<<EaclRow(K1, SC1)>>), Sheet(<<SaleRow(K1, K2)>>),
                 Sheet(<<TransformRow(K2, K3)>>), Sheet(<<BridgeRow(K3, K4)>>),
                 Sheet(<<ResultRow(K4, P1)>>)>>}}

SessionLots == {L1, L2, L9, L0}
SessionDepths == {1, DefaultMaxDepth}

\* A tracker after CoffeeLotLineageTracker().
InitSession ==
    /\ records = <<>>
    /\ lot_records_cache = EmptyDict
    /\ prod_order_cache = EmptyDict
    /\ lot_index = <<>>
    /\ prod_order_index = <<>>
    /\ eacl_navision = <<>>
    /\ acom_sale = <<>>
    /\ acom_nav_transform = <<>>
    /\ acom_nav_bridge = <<>>
    /\ acom_production_results = <<>>
    /\ purchase_lot_map = <<>>
    /\ result = NoResult
    /\ calls = NoCalls
    /\ loads = 0

\* tracker.load_excel_file(file_path): the sheets of the file are read, then
\* build_purchase_lot_mapping and preprocess_data run on what the tracker
\* holds (no Purchase sheet is in the files, perform_vlookup returns at once).
SessionLoadExcelFile ==
    /\ loads < MaxLoads
    /\ \E book \in Workbooks :
        /\ records' = Loaded(book.main, records)
        /\ eacl_navision' = Loaded(book.eacl, eacl_navision)
        /\ acom_sale' = Loaded(book.sale, acom_sale)
        /\ acom_nav_transform' = Loaded(book.transform, acom_nav_transform)
        /\ acom_nav_bridge' = Loaded(book.bridge, acom_nav_bridge)
        /\ acom_production_results' = Loaded(book.results, acom_production_results)
        /\ result' = [op |-> "load", book |-> book,
                      lot_index_before |-> lot_index,
                      prod_order_index_before |-> prod_order_index]
    /\ purchase_lot_map' =
           MapOf(BuildResult(eacl_navision', acom_sale', acom_nav_transform',
                             acom_nav_bridge', acom_production_results', records').step5,
                 <<>>)
    /\ lot_index' = IndexByLot(lot_index, records')
    /\ prod_order_index' = IndexByProdOrder(prod_order_index, records')
    /\ loads' = loads + 1
    /\ UNCHANGED <<lot_records_cache, prod_order_cache, calls>>

\* A dict after d.setdefault(k, []): a missing key is stored with the default.
AfterSetDefault(d, k) == IF DictHas(d, k) THEN d ELSE Append(d, Entry(k, <<>>))

\* A dict after d.get(k, []): the default is returned, never stored.
AfterGet(d, k) == d

\* A dict after d.get(k, []) for each key of a sequence.
RECURSIVE AfterGets(_, _)
AfterGets(d, keys) ==
    IF keys = <<>> THEN d ELSE AfterGets(AfterGet(d, Head(keys)), Tail(keys))

\* The lots that a get_lot_lineage call looked up in lot_index, in order:
\* the build_node calls that went past the depth and visited test.
LookedUp(r) ==
    [i \in DOMAIN SelectSeq(r.log, LAMBDA e : ~e.seen /\ e.depth <= r.max_depth) |->
        SelectSeq(r.log, LAMBDA e : ~e.seen /\ e.depth <= r.max_depth)[i].lot]

\* tracker.get_lot_lineage(lot_no, max_depth)
SessionGetLotLineage ==
    /\ \E lot_no \in SessionLots, max_depth \in SessionDepths :
        result' = BResult(BRun(BStart(lot_no, max_depth), lot_index, prod_order_index))
    /\ lot_index' = AfterGets(lot_index, LookedUp(result'))
    /\ UNCHANGED <<records, lot_records_cache, prod_order_cache, prod_order_index>>
    /\ UNCHANGED joinVars
    /\ UNCHANGED <<calls, loads>>

\* tracker.get_purchase_lot_lineage(sale_contract)
SessionGetPurchaseLotLineage ==
    /\ \E sale_contract \in {SC0, SC1} :
          /\ result' = PurchaseResult(purchase_lot_map, lot_index, prod_order_index,
                                      sale_contract)
          /\ purchase_lot_map' = AfterGet(purchase_lot_map, sale_contract)
    /\ lot_index' = AfterGets(lot_index, Concat([i \in DOMAIN result'.lineages |->
                                                  LookedUp(result'.lineages[i])]))
    /\ UNCHANGED <<records, lot_records_cache, prod_order_cache, prod_order_index>>
    /\ UNCHANGED <<eacl_navision, acom_sale, acom_nav_transform, acom_nav_bridge,
                   acom_production_results>>
    /\ UNCHANGED <<calls, loads>>

\* tracker.get_lot_statistics(lot_no)
SessionGetLotStatistics ==
    /\ \E lot_no \in SessionLots :
          /\ result' = StatsResult(lot_index, lot_no)
          /\ lot_index' = AfterGet(lot_index, lot_no)
    /\ UNCHANGED <<records, lot_records_cache, prod_order_cache, prod_order_index>>
    /\ UNCHANGED joinVars
    /\ UNCHANGED <<calls, loads>>

NextSession ==
    \/ SessionLoadExcelFile
    \/ SessionGetLotLineage
    \/ SessionGetPurchaseLotLineage
    \/ SessionGetLotStatistics

SpecSession == InitSession /\ [][NextSession]_vars

(* C22: the index after a second load *)

\* The index a tracker builds from its record set alone.
FreshLotIndex == IndexByLot(<<>>, records)
FreshProdOrderIndex == IndexByProdOrder(<<>>, records)

\* C22 (as stated): after every load_excel_file the two indices are the
\* indices of the record set the tracker holds: no entry and no record left
\* from an earlier build, and no record twice under a key.
C22_Original ==
    loads > 0 => lot_index = FreshLotIndex /\ prod_order_index = FreshProdOrderIndex

(* C23: queries are read-only *)

\* purchase_lot_map as build_purchase_lot_mapping builds it from the sheets
\* and the record set of the tracker.
BuiltMap ==
    MapOf(BuildResult(eacl_navision, acom_sale, acom_nav_transform, acom_nav_bridge,
                      acom_production_results, records).step5, <<>>)

\* The last operation was a query.
Queried == result.op \in {"backend", "purchase", "stats"}

\* C23: a get_lot_lineage, get_purchase_lot_lineage or get_lot_statistics call
\* leaves records, lot_index, prod_order_index and purchase_lot_map as they
\* were, so that after any sequence of queries purchase_lot_map is the map
\* built by the last load and, on a tracker loaded once, the indices are the
\* indices of its record set.
C23_QueriesReadOnly ==
    /\ [][Queried' =>
            /\ records' = records
            /\ lot_index' = lot_index
            /\ prod_order_index' = prod_order_index
            /\ purchase_lot_map' = purchase_lot_map]_vars
    /\ [](loads > 0 => purchase_lot_map = BuiltMap)
    /\ [](loads = 1 => lot_index = FreshLotIndex /\ prod_order_index = FreshProdOrderIndex)

\* A tracker loaded twice with a sale contract in its map, after the contract
\* was resolved and a trace of one of its lots looked up more than one lot.
C23_Witness ==
    /\ loads > 1 /\ purchase_lot_map # <<>> /\ lot_index # <<>>
    /\ result.op = "purchase" /\ result.lineages # <<>>
    /\ \E i \in DOMAIN result.lineages :
          /\ result.lineages[i].tree # <<>>
          /\ Len(LookedUp(result.lineages[i])) > 1

----------------------------------------------------------------------------
(* The caches of one LotLineageTracker over a sequence of calls *)

MaxCacheRecords == 2

CacheLots == {L1, L2, L0}
CacheDepths == {1, DefaultMaxDepth}

\* A LotLineageTracker(df_production) after construction: both caches empty.
InitCache ==
    /\ records \in {recs \in SeqsUpTo(TraceRows, MaxCacheRecords) : Canonical(recs)}
    /\ lot_records_cache = EmptyDict
    /\ prod_order_cache = EmptyDict
    /\ lot_index = <<>>
    /\ prod_order_index = <<>>
    /\ eacl_navision = <<>>
    /\ acom_sale = <<>>
    /\ acom_nav_transform = <<>>
    /\ acom_nav_bridge = <<>>
    /\ acom_production_results = <<>>
    /\ purchase_lot_map = <<>>
    /\ result = NoResult
    /\ calls = NoCalls
    /\ loads = 0

\* tracker.get_lot_records(lot_no); hit tells whether the key was cached.
GetLotRecords ==
    /\ \E lot_no \in CacheLots :
        LET got == get_lot_records(records, lot_records_cache, lot_no)
        IN /\ result' = [op |-> "lot_records", key |-> lot_no, rows |-> got.rows,
                         hit |-> Has(lot_records_cache, lot_no)]
           /\ lot_records_cache' = got.cache
    /\ UNCHANGED <<records, prod_order_cache, lot_index, prod_order_index>>
    /\ UNCHANGED joinVars
    /\ UNCHANGED <<calls, loads>>

\* tracker.get_prod_order_records(prod_order)
GetProdOrderRecords ==
    /\ \E prod_order \in Orders :
        LET got == get_prod_order_records(records, prod_order_cache, prod_order)
        IN /\ result' = [op |-> "prod_order_records", key |-> prod_order,
                         rows |-> got.rows, hit |-> Has(prod_order_cache, prod_order)]
           /\ prod_order_cache' = got.cache
    /\ UNCHANGED <<records, lot_records_cache, lot_index, prod_order_index>>
    /\ UNCHANGED joinVars
    /\ UNCHANGED <<calls, loads>>

\* tracker.get_lot_lineage(lot_no, max_depth) on the caches as they are.
CachedGetLotLineage ==
    /\ \E lot_no \in CacheLots, max_depth \in CacheDepths, seed \in Seeds :
        LET s == FRun(FStart(lot_records_cache, prod_order_cache, lot_no, max_depth, seed),
                      records)
        IN /\ result' = FResult(s)
           /\ lot_records_cache' = s.lc
           /\ prod_order_cache' = s.pc_cache
    /\ UNCHANGED <<records, lot_index, prod_order_index>>
    /\ UNCHANGED joinVars
    /\ UNCHANGED <<calls, loads>>

\* tracker.clear_cache(); had tells whether a cache held an entry.
ClearCache ==
    /\ result' = [op |-> "clear",
                  had |-> lot_records_cache # EmptyDict \/ prod_order_cache # EmptyDict]
    /\ lot_records_cache' = EmptyDict
    /\ prod_order_cache' = EmptyDict
    /\ UNCHANGED <<records, lot_index, prod_order_index>>
    /\ UNCHANGED joinVars
    /\ UNCHANGED <<calls, loads>>

NextCache == GetLotRecords \/ GetProdOrderRecords \/ CachedGetLotLineage \/ ClearCache

SpecCache == InitCache /\ [][NextCache]_vars

(* C24: the caches agree with the record set *)

\* C24: over an unchanged record set every entry of lot_records_cache and of
\* prod_order_cache holds the rows a fresh filter of the record set gives for
\* its key, a lookup returns those rows whether or not the key was cached,
\* and after clear_cache both caches are empty.
C24_CacheCoherent ==
    /\ \A k \in DOMAIN lot_records_cache : lot_records_cache[k] = FilterLot(records, k)
    /\ \A k \in DOMAIN prod_order_cache :
          prod_order_cache[k] = FilterProdOrder(records, k)
    /\ result.op = "lot_records" => result.rows = FilterLot(records, result.key)
    /\ result.op = "prod_order_records" =>
          result.rows = FilterProdOrder(records, result.key)
    /\ result.op = "clear" => lot_records_cache = EmptyDict /\ prod_order_cache = EmptyDict

\* A production order looked up from the cache, with rows, while the lot
\* cache holds entries too.
C24_Witness ==
    /\ result.op = "prod_order_records" /\ result.hit /\ result.rows # <<>>
    /\ \E k \in DOMAIN lot_records_cache : lot_records_cache[k] # <<>>

----------------------------------------------------------------------------
(* trace_lot_lineage: the lineage of a lot as one recursive query *)

MaxQueryRecords == 3
MaxQueryDepth == 3
MaxIterations == 6

\* The rows of production_enriched: lot_no, prod_order_no (NULL on some
\* rows) and entry_type.
QueryRows ==
    {Row(l, p, t, None) : l \in Lots, p \in Orders \cup {None},
                          t \in {"Consumption", "Output"}}

\* SQL = and != : a comparison with NULL is never true.
SqlEq(a, b) == a # None /\ b # None /\ a = b
SqlNe(a, b) == a # None /\ b # None /\ a # b

\* A row of lineage: the columns of a production_enriched row that the
\* query compares, with depth, path and relationship_type.
LineageRow(pe, depth, path, relationship_type) ==
    [lot |-> pe.lot, po |-> pe.po, entry_type |-> pe.ptype, depth |-> depth,
     path |-> path, relationship_type |-> relationship_type]

\* Base case: the rows of the queried lot, at depth 0.
BaseRows(recs, lot_no) ==
    [i \in DOMAIN SelectSeq(recs, LAMBDA pe : SqlEq(pe.lot, lot_no)) |->
        LineageRow(SelectSeq(recs, LAMBDA pe : SqlEq(pe.lot, lot_no))[i], 0,
                   <<lot_no>>, "current")]

\* Recursive case 1 for one row l of lineage: the Consumption rows of other
\* lots in the production order of l.
OriginRows(l, recs) ==
    [i \in DOMAIN SelectSeq(recs, LAMBDA pe :
            SqlEq(l.po, pe.po) /\ pe.ptype = "Consumption" /\ SqlNe(pe.lot, l.lot)) |->
        LineageRow(SelectSeq(recs, LAMBDA pe :
            SqlEq(l.po, pe.po) /\ pe.ptype = "Consumption" /\ SqlNe(pe.lot, l.lot))[i],
            l.depth + 1,
            Append(l.path, SelectSeq(recs, LAMBDA pe :
                SqlEq(l.po, pe.po) /\ pe.ptype = "Consumption"
                /\ SqlNe(pe.lot, l.lot))[i].lot),
            "origin")]

\* Recursive case 2 for one row l and one row pe1: the Output rows of other
\* lots in the production order of pe1.
OutputRows(l, pe1, recs) ==
    [i \in DOMAIN SelectSeq(recs, LAMBDA pe2 :
            SqlEq(pe1.po, pe2.po) /\ pe2.ptype = "Output" /\ SqlNe(pe2.lot, l.lot)) |->
        LineageRow(SelectSeq(recs, LAMBDA pe2 :
            SqlEq(pe1.po, pe2.po) /\ pe2.ptype = "Output" /\ SqlNe(pe2.lot, l.lot))[i],
            l.depth + 1,
            Append(l.path, SelectSeq(recs, LAMBDA pe2 :
                SqlEq(pe1.po, pe2.po) /\ pe2.ptype = "Output"
                /\ SqlNe(pe2.lot, l.lot))[i].lot),
            "destination")]

\* Recursive case 2 for one row l of lineage: pe1 ranges over the Consumption
\* rows of the lot of l.
DestinationRows(l, recs) ==
    Concat([i \in DOMAIN SelectSeq(recs, LAMBDA pe1 :
                SqlEq(l.lot, pe1.lot) /\ pe1.ptype = "Consumption") |->
        OutputRows(l, SelectSeq(recs, LAMBDA pe1 :
                SqlEq(l.lot, pe1.lot) /\ pe1.ptype = "Consumption")[i], recs)])

\* The rows that the two recursive cases add for one row of lineage
\* (WHERE l.depth < max_depth).
RowsFrom(l, recs, max_depth) ==
    IF l.depth < max_depth THEN OriginRows(l, recs) \o DestinationRows(l, recs) ELSE <<>>

\* WITH RECURSIVE ... UNION ALL: the recursive cases are applied to the rows
\* of the last round until a round adds no row.  rows are all rows so far,
\* last the rows of the last round, rounds the rounds made; the query is left
\* unfinished after MaxIterations rounds.
RECURSIVE Lineage(_, _, _, _, _)
Lineage(rows, last, recs, max_depth, rounds) ==
    IF last = <<>> \/ rounds >= MaxIterations
    THEN [rows |-> rows, finished |-> last = <<>>]
    ELSE Lineage(rows \o last,
                 Concat([i \in DOMAIN last |-> RowsFrom(last[i], recs, max_depth)]),
                 recs, max_depth, rounds + 1)

\* The rows of a sequence as a bag, each row with the number of times it
\* occurs: the order of the rows of a query result is not given.
BagOf(rows) ==
    [r \in Range(rows) |-> Cardinality({i \in DOMAIN rows : rows[i] = r})]

\* What spark.sql(recursive_query) gives for trace_lot_lineage(lot_no,
\* max_depth); expanded holds the lot and depth of every row of lineage
\* from which a recursive case made a row.
QueryResult(recs, lot_no, max_depth) ==
    LET q == Lineage(<<>>, BaseRows(recs, lot_no), recs, max_depth, 0)
    IN [op |-> "query", lot_no |-> lot_no, max_depth |-> max_depth,
        rows |-> BagOf(q.rows), returned |-> q.finished,
        expanded |-> {<<q.rows[i].lot, q.rows[i].depth>> :
                        i \in {k \in DOMAIN q.rows :
                                  RowsFrom(q.rows[k], recs, max_depth) # <<>>}}]

\* production_enriched as it is when trace_lot_lineage is called.
InitQuery ==
    /\ records \in {recs \in SeqsUpTo(QueryRows, MaxQueryRecords) : Canonical(recs)}
    /\ lot_records_cache = EmptyDict
    /\ prod_order_cache = EmptyDict
    /\ lot_index = <<>>
    /\ prod_order_index = <<>>
    /\ eacl_navision = <<>>
    /\ acom_sale = <<>>
    /\ acom_nav_transform = <<>>
    /\ acom_nav_bridge = <<>>
    /\ acom_production_results = <<>>
    /\ purchase_lot_map = <<>>
    /\ result = NoResult
    /\ calls = NoCalls
    /\ loads = 0

\* trace_lot_lineage(lot_no, max_depth)
TraceLotLineage ==
    /\ result = NoResult
    /\ \E lot_no \in QueryLots, max_depth \in 0..MaxQueryDepth :
        result' = QueryResult(records, lot_no, max_depth)
    /\ UNCHANGED <<records, lot_records_cache, prod_order_cache, lot_index,
                   prod_order_index>>
    /\ UNCHANGED joinVars
    /\ UNCHANGED <<calls, loads>>

NextQuery == TraceLotLineage

SpecQuery == InitQuery /\ [][NextQuery]_vars

(* C25: the termination rules in the recursive query *)

\* C25 (as stated): the query terminates, no row of its result lies deeper
\* than max_depth, and no lot is expanded at two depths of one query.
C25_Original ==
    result.op = "query" =>
        /\ result.returned
        /\ \A row \in DOMAIN result.rows : row.depth <= result.max_depth
        /\ \A a, b \in result.expanded : a[1] = b[1] => a[2] = b[2]

----------------------------------------------------------------------------
(* C26: rows without a join key *)

\* A key that is missing (None) or empty once normalized.
NoKey(k) == k = None \/ norm(k) = <<>>

\* C26 (as stated): when the five stages have run, no match of any stage was
\* made on a missing or empty key: the sale contract of a step-1 match, the
\* sale lot of a step-2 match, the production lot of a step-3 match, the
\* bridge destination lot of a step-4 match and the production order of a
\* step-5 match are all present and not empty.
C26_Original ==
    StagesRun =>
        /\ \A m \in Range(result.step1) : ~NoKey(m.saleContract)
        /\ \A m \in Range(result.step2) : ~NoKey(m.saleLot)
        /\ \A m \in Range(result.step3) : ~NoKey(m.productionLot)
        /\ \A m \in Range(result.step4) : ~NoKey(m.bridgeDestLot)
        /\ \A m \in Range(result.step5) : ~NoKey(m.prodOrder)

====
